---- MODULE Spec2Model ----
(***************************************************************************)
(* A model of the event harvesting pipeline of stevibs-ai-outreach:        *)
(* the deduplication stages, the recurring-event consolidation, the date   *)
(* filters of the source adapters, the selector cascades and the date      *)
(* parsers of backend/tools/schools.py, backend/tools/churches.py and      *)
(* backend/routes/events.py, the execute methods of the source adapters    *)
(* (with backend/tools/macaronikid_events.py) and the contact enrichment   *)
(* of backend/tools/contact_scraper.py.                                    *)
(*                                                                         *)
(* Text that the code inspects character by character (titles,             *)
(* descriptions, web sites) is a sequence of one-character strings, so     *)
(* that lower(), strip(), substring tests and the regular expressions are  *)
(* computed and not assumed.  An absent (None) text field is the empty     *)
(* sequence: the code only tests such fields for truthiness.               *)
(***************************************************************************)
EXTENDS Integers, Sequences, FiniteSets, TLC

VARIABLES
    tool,       \* the component a run exercises
    call,       \* the function applied last ("none" before the first call)
    arg,        \* the argument of that call
    ret,        \* what the call returned
    applied     \* how many calls the run has made

vars == <<tool, call, arg, ret, applied>>

(***************************************************************************)
(* Text helpers: str.lower, str.strip, the `in` substring test, re.search  *)
(***************************************************************************)
UpperCase == <<"A","B","C","D","E","F","G","H","I","J","K","L","M","N","O","P","Q","R","S","T","U","V","W","X","Y","Z">>

LowerCase == <<"a","b","c","d","e","f","g","h","i","j","k","l","m","n","o","p","q","r","s","t","u","v","w","x","y","z">>

Digits == {"0","1","2","3","4","5","6","7","8","9"}

IsDigit(c) == c \in Digits

IsSpace(c) == c = " "

\* the lower-case letter of every upper-case letter
LowerOf ==
    [c \in {UpperCase[k] : k \in 1..26} |->
        LowerCase[CHOOSE k \in 1..26 : UpperCase[k] = c]]

LowerChar(c) == IF c \in DOMAIN LowerOf THEN LowerOf[c] ELSE c

Lower(s) == [i \in 1..Len(s) |-> LowerChar(s[i])]

Strip(s) ==
    LET keep == {i \in 1..Len(s) : ~IsSpace(s[i])}
    IN  IF keep = {} THEN <<>>
        ELSE LET first == CHOOSE i \in keep : \A j \in keep : i <= j
                 last  == CHOOSE i \in keep : \A j \in keep : j <= i
             IN  SubSeq(s, first, last)

\* lit occurs in s starting at position i
MatchAt(s, i, lit) ==
    /\ i >= 1
    /\ i + Len(lit) - 1 <= Len(s)
    /\ \A k \in 1..Len(lit) : s[i + k - 1] = lit[k]

\* the same, whatever the case of the letters (re.IGNORECASE)
MatchAtNoCase(s, i, lit) ==
    /\ i >= 1
    /\ i + Len(lit) - 1 <= Len(s)
    /\ \A k \in 1..Len(lit) : LowerChar(s[i + k - 1]) = LowerChar(lit[k])

\* Python's `needle in hay` for strings (the empty string is in every string)
Contains(hay, needle) ==
    \E i \in 1..(Len(hay) + 1) : MatchAt(hay, i, needle)

\* truthiness of an optional text, and of an optional URL (kept as an opaque string)
Truthy(s) == s # <<>>

HasUrl(u) == u # ""

(***************************************************************************)
(* ChurchesTool._looks_like_date                                           *)
(***************************************************************************)
\* calendar.month_name, month_abbr, day_name, day_abbr (English locale)
MonthFull ==
    << <<"J","a","n","u","a","r","y">>,
       <<"F","e","b","r","u","a","r","y">>,
       <<"M","a","r","c","h">>,
       <<"A","p","r","i","l">>,
       <<"M","a","y">>,
       <<"J","u","n","e">>,
       <<"J","u","l","y">>,
       <<"A","u","g","u","s","t">>,
       <<"S","e","p","t","e","m","b","e","r">>,
       <<"O","c","t","o","b","e","r">>,
       <<"N","o","v","e","m","b","e","r">>,
       <<"D","e","c","e","m","b","e","r">> >>

MonthAbbr ==
    << <<"J","a","n">>,
       <<"F","e","b">>,
       <<"M","a","r">>,
       <<"A","p","r">>,
       <<"M","a","y">>,
       <<"J","u","n">>,
       <<"J","u","l">>,
       <<"A","u","g">>,
       <<"S","e","p">>,
       <<"O","c","t">>,
       <<"N","o","v">>,
       <<"D","e","c">> >>

DayFull ==
    << <<"M","o","n","d","a","y">>,
       <<"T","u","e","s","d","a","y">>,
       <<"W","e","d","n","e","s","d","a","y">>,
       <<"T","h","u","r","s","d","a","y">>,
       <<"F","r","i","d","a","y">>,
       <<"S","a","t","u","r","d","a","y">>,
       <<"S","u","n","d","a","y">> >>

DayAbbr ==
    << <<"M","o","n">>,
       <<"T","u","e">>,
       <<"W","e","d">>,
       <<"T","h","u">>,
       <<"F","r","i">>,
       <<"S","a","t">>,
       <<"S","u","n">> >>

Range(seq) == {seq[k] : k \in 1..Len(seq)}

Weekdays == Range(DayFull)

MonthNames == Range(MonthFull)

ShortMonthNames == Range(MonthAbbr)

TimeSuffixes ==
    { <<"a",".","m",".">>, <<"p",".","m",".">>, <<"a","m">>, <<"p","m">> }

DeadlinePrefix == <<"D","e","a","d","l","i","n","e",":">>

\* re.search of an alternation of literals
SearchAny(s, lits) == \E lit \in lits : Contains(s, lit)

\* re.search(r'\d{1,2}/\d{1,2}', s)
SearchSlashDate(s) ==
    \E i \in 1..Len(s) :
        /\ i + 2 <= Len(s)
        /\ IsDigit(s[i]) /\ s[i+1] = "/" /\ IsDigit(s[i+2])

\* re.search(r'\d{4}/\d{4}', s)
SearchYearSlashYear(s) ==
    \E i \in 1..Len(s) :
        /\ i + 8 <= Len(s)
        /\ \A k \in 0..3 : IsDigit(s[i+k]) /\ IsDigit(s[i+5+k])
        /\ s[i+4] = "/"

\* re.search(r'@\d{1,2}', s)
SearchAtTime(s) ==
    \E i \in 1..Len(s) : i + 1 <= Len(s) /\ s[i] = "@" /\ IsDigit(s[i+1])

\* re.search(r'\d{1,2}\s*(a\.m\.|p\.m\.|am|pm)', s)
SearchClockTime(s) ==
    \E i \in 1..Len(s) :
        /\ IsDigit(s[i])
        /\ \E j \in (i+1)..Len(s) :
              /\ \A k \in (i+1)..(j-1) : IsSpace(s[k])
              /\ \E suf \in TimeSuffixes : MatchAt(s, j, suf)

\* the eight date_patterns, each searched in text.lower()
DatePatternMatches(text_lower) ==
    << SearchAny(text_lower, Weekdays),
       SearchSlashDate(text_lower),
       SearchYearSlashYear(text_lower),
       SearchAny(text_lower, MonthNames),
       SearchAny(text_lower, ShortMonthNames),
       SearchAtTime(text_lower),
       SearchClockTime(text_lower),
       Contains(text_lower, DeadlinePrefix) >>

LooksLikeDate(text) ==
    LET hits == DatePatternMatches(Lower(text))
        matches == Cardinality({k \in 1..Len(hits) : hits[k]})
    IN  matches >= 2

(***************************************************************************)
(* Calendar dates (datetime.date), strftime and strptime                   *)
(***************************************************************************)
IsLeap(y) == (y % 4 = 0 /\ y % 100 # 0) \/ y % 400 = 0

DaysInMonth(y, m) ==
    IF m = 2 THEN (IF IsLeap(y) THEN 29 ELSE 28)
    ELSE IF m \in {4, 6, 9, 11} THEN 30 ELSE 31

RECURSIVE DaysBeforeMonth(_, _)
DaysBeforeMonth(y, m) ==
    IF m <= 1 THEN 0 ELSE DaysBeforeMonth(y, m - 1) + DaysInMonth(y, m - 1)

\* date.toordinal(): 1 is 0001-01-01
ToOrdinal(d) ==
    LET y == d.year - 1
    IN  365 * y + (y \div 4) - (y \div 100) + (y \div 400)
        + DaysBeforeMonth(d.year, d.month) + d.day

\* date.weekday(): Monday is 0
Weekday(d) == (ToOrdinal(d) + 6) % 7

\* (a - b).days
DaysBetween(a, b) == ToOrdinal(a) - ToOrdinal(b)

MkDate(y, m, d) == [year |-> y, month |-> m, day |-> d]

DigitChars == <<"0","1","2","3","4","5","6","7","8","9">>

DigitVal(c) == (CHOOSE k \in 1..10 : DigitChars[k] = c) - 1

Pad2(n) == <<DigitChars[((n \div 10) % 10) + 1], DigitChars[(n % 10) + 1]>>

Pad4(n) == Pad2(n \div 100) \o Pad2(n % 100)

\* str(n) for 0 <= n < 100
Str(n) == IF n < 10 THEN <<DigitChars[n + 1]>> ELSE Pad2(n)

RECURSIVE NumberOf(_)
NumberOf(digits) ==
    IF digits = <<>> THEN 0
    ELSE 10 * NumberOf(SubSeq(digits, 1, Len(digits) - 1)) + DigitVal(digits[Len(digits)])

AllDigits(s, i, n) ==
    /\ i >= 1
    /\ i + n - 1 <= Len(s)
    /\ \A k \in i..(i + n - 1) : IsDigit(s[k])

TimeSuffixAM == <<"A","M">>

TimeSuffixPM == <<"P","M">>

\* date.strftime and datetime.strftime for a format given as its directives and literal characters
RECURSIVE Strftime(_, _)
Strftime(fmt, d) ==
    IF fmt = <<>> THEN <<>>
    ELSE LET tok  == Head(fmt)
             text == CASE tok = "%a" -> DayAbbr[Weekday(d) + 1]
                       [] tok = "%A" -> DayFull[Weekday(d) + 1]
                       [] tok = "%b" -> MonthAbbr[d.month]
                       [] tok = "%B" -> MonthFull[d.month]
                       [] tok = "%d" -> Pad2(d.day)
                       [] tok = "%m" -> Pad2(d.month)
                       [] tok = "%Y" -> Pad4(d.year)
                       [] tok = "%I" -> Pad2(((d.hour + 11) % 12) + 1)
                       [] tok = "%M" -> Pad2(d.minute)
                       [] tok = "%p" -> IF d.hour < 12 THEN TimeSuffixAM
                                        ELSE TimeSuffixPM
                       [] OTHER      -> <<tok>>
         IN  text \o Strftime(Tail(fmt), d)

\* what strptime has read so far; 1900-01-01 is its default date
NoFields == [year |-> 1900, month |-> 1, day |-> 1]

\* a one- or two-digit number in lo..hi at position i, the two-digit reading first
NumberReadings(s, i, lo, hi) ==
    LET two == IF AllDigits(s, i, 2) /\ NumberOf(SubSeq(s, i, i + 1)) \in lo..hi
               THEN <<[n |-> NumberOf(SubSeq(s, i, i + 1)), next |-> i + 2]>>
               ELSE <<>>
        one == IF AllDigits(s, i, 1) /\ DigitVal(s[i]) \in lo..hi
               THEN <<[n |-> DigitVal(s[i]), next |-> i + 1]>>
               ELSE <<>>
    IN  two \o one

\* the names of a table that match, whatever their case, at position i
NameReadings(s, i, names) ==
    LET hit == {k \in 1..Len(names) : MatchAtNoCase(s, i, names[k])}
    IN  IF hit = {} THEN <<>>
        ELSE LET k == CHOOSE k \in hit : \A j \in hit : Len(names[j]) <= Len(names[k])
             IN  <<[n |-> k, next |-> i + Len(names[k])]>>

\* the end of the run of white space that starts at i (i itself when there is none)
RECURSIVE SkipSpaces(_, _)
SkipSpaces(s, i) ==
    IF i <= Len(s) /\ IsSpace(s[i]) THEN SkipSpaces(s, i + 1) ELSE i

\* a space of a format reads one or more white-space characters
SpaceReadings(s, i, after) == IF after > i THEN <<[next |-> after]>> ELSE <<>>

\* the readings rs of one directive, each with the fields read so far
WithField(rs, f, field) ==
    [j \in 1..Len(rs) |-> [next |-> rs[j].next, f |-> [f EXCEPT ![field] = rs[j].n]]]

Keeping(rs, f) == [j \in 1..Len(rs) |-> [next |-> rs[j].next, f |-> f]]

\* the ways one directive or literal character of a format reads s at i
TokenReadings(tok, s, i, f) ==
    CASE tok = "%Y" ->
           IF AllDigits(s, i, 4)
           THEN <<[next |-> i + 4,
                   f |-> [f EXCEPT !.year = NumberOf(SubSeq(s, i, i + 3))]]>>
           ELSE <<>>
      [] tok = "%m" -> WithField(NumberReadings(s, i, 1, 12), f, "month")
      [] tok = "%d" -> WithField(NumberReadings(s, i, 1, 31), f, "day")
      [] tok = "%B" -> WithField(NameReadings(s, i, MonthFull), f, "month")
      [] tok = "%b" -> WithField(NameReadings(s, i, MonthAbbr), f, "month")
      [] tok = "%A" -> Keeping(NameReadings(s, i, DayFull), f)
      [] tok = "%a" -> Keeping(NameReadings(s, i, DayAbbr), f)
      [] tok = "%H" -> Keeping(NumberReadings(s, i, 0, 23), f)
      [] tok = "%I" -> Keeping(NumberReadings(s, i, 1, 12), f)
      [] tok \in {"%M", "%S"} -> Keeping(NumberReadings(s, i, 0, 59), f)
      [] tok = "%p" -> Keeping(NameReadings(s, i, <<TimeSuffixAM, TimeSuffixPM>>), f)
      [] tok = " " -> Keeping(SpaceReadings(s, i, SkipSpaces(s, i)), f)
      [] OTHER ->
           IF i <= Len(s) /\ s[i] = tok THEN <<[next |-> i + 1, f |-> f]>> ELSE <<>>

\* _strptime's regular expression: every reading of s[i..] by fmt[k..], best first
RECURSIVE StrptimeReadings(_, _, _, _, _)
RECURSIVE StrptimeEach(_, _, _, _, _)
StrptimeReadings(fmt, k, s, i, f) ==
    IF k > Len(fmt) THEN (IF i > Len(s) THEN <<f>> ELSE <<>>)
    ELSE StrptimeEach(fmt, k, s, TokenReadings(fmt[k], s, i, f), 1)

StrptimeEach(fmt, k, s, rs, j) ==
    IF j > Len(rs) THEN <<>>
    ELSE StrptimeReadings(fmt, k + 1, s, rs[j].next, rs[j].f)
         \o StrptimeEach(fmt, k, s, rs, j + 1)

\* the first reading when it names a day its month has
ValidReading(rs) ==
    IF rs # <<>> /\ rs[1].day <= DaysInMonth(rs[1].year, rs[1].month)
    THEN <<rs[1]>> ELSE <<>>

\* datetime.strptime(s, fmt): <<fields>> when it returns, <<>> when it raises
\* ValueError (no match, or a day the month does not have)
Strptime(s, fmt) == ValidReading(StrptimeReadings(fmt, 1, s, 1, NoFields))


(***************************************************************************)
(* SchoolsTool._parse_event_date                                           *)
(***************************************************************************)
\* date.today() of the run
Today == MkDate(2025, 9, 1)

CurrentYear == Today.year

DateNotSpecified == <<"D","a","t","e"," ","n","o","t"," ","s","p","e","c","i","f","i","e","d">>

RecurringPrefix == <<" ","(","R","e","c","u","r","r","i","n","g"," ","e","v","e","n","t",":"," ">>

RecurringSuffix == <<" ","d","a","t","e","s",")">>

\* the date_formats list, each format as its directives and literal characters
date_formats ==
    << <<"%Y","-","%m","-","%d">>,
       <<"%m","/","%d","/","%Y">>,
       <<"%d","/","%m","/","%Y">>,
       <<"%m","-","%d","-","%Y">>,
       <<"%B"," ","%d",","," ","%Y">>,
       <<"%b"," ","%d",","," ","%Y">>,
       <<"%A",","," ","%B"," ","%d",","," ","%Y">>,
       <<"%a",","," ","%b"," ","%d",","," ","%Y">>,
       <<"%B"," ","%d">>,
       <<"%b"," ","%d">>,
       <<"%m","/","%d">>,
       <<"%m","-","%d">>,
       <<"%Y","-","%m","-","%d"," ","%H",":","%M",":","%S">>,
       <<"%m","/","%d","/","%Y"," ","%H",":","%M"," ","%p">>,
       <<"%B"," ","%d",","," ","%Y"," ","a","t"," ","%I",":","%M"," ","%p">>,
       <<"%a",","," ","%b"," ","%d"," ","a","t"," ","%I",":","%M"," ","%p">> >>

\* the date of the fields strptime read, year 1900 standing for default_year
DateOfFields(got, default_year) ==
    IF got = <<>> THEN <<>>
    ELSE <<MkDate(IF got[1].year = 1900 THEN default_year ELSE got[1].year,
                  got[1].month, got[1].day)>>

\* the first attempt's date when it gave one, the later attempt's otherwise
OrElse(first, later) == IF first # <<>> THEN first ELSE later

\* the first format, in list order, that strptime accepts: <<date>> or <<>>
RECURSIVE FirstFormat(_, _, _)
FirstFormat(text, formats, k) ==
    IF k > Len(formats) THEN <<>>
    ELSE OrElse(DateOfFields(Strptime(text, formats[k]), CurrentYear),
                FirstFormat(text, formats, k + 1))

TimedDisplayFormat ==
    <<"%a",","," ","%b"," ","%d",","," ","%Y"," ","a","t"," ","%I",":","%M"," ","%p">>

\* dateutil.parser.parse(text, default=now) on the texts that reach it: it reads
\* the timed rendering written by _format_date_with_timezone ("at" is one of its
\* skipped words) and raises on a text it finds no date in.
DateutilParse(text) == DateOfFields(Strptime(text, TimedDisplayFormat), 1900)

IsLetter(c) == c \in DOMAIN LowerOf \/ c \in {LowerCase[k] : k \in 1..26}

\* the end of the run of letters that starts at i
RECURSIVE SkipLetters(_, _)
SkipLetters(s, i) ==
    IF i <= Len(s) /\ IsLetter(s[i]) THEN SkipLetters(s, i + 1) ELSE i

\* re.search(r'(?:Jan|...|Dec)[a-z]*\s+\d{1,2}(?:,?\s*\d{4})?', s, re.IGNORECASE):
\* the matched text, <<>> when there is no match
MonthDayYearAt(s, i) ==
    LET afterName == SkipLetters(s, i + 3)
        afterGap  == SkipSpaces(s, afterName)
        afterDay  == IF AllDigits(s, afterGap, 2) THEN afterGap + 2 ELSE afterGap + 1
        afterComma == IF afterDay <= Len(s) /\ s[afterDay] = "," THEN afterDay + 1
                      ELSE afterDay
        yearAt    == SkipSpaces(s, afterComma)
    IN  IF /\ \E k \in 1..12 : MatchAtNoCase(s, i, MonthAbbr[k])
           /\ afterGap > afterName
           /\ AllDigits(s, afterGap, 1)
        THEN IF AllDigits(s, yearAt, 4) THEN SubSeq(s, i, yearAt + 3)
             ELSE SubSeq(s, i, afterDay - 1)
        ELSE <<>>

SearchMonthDayYear(s) ==
    LET hits == {i \in 1..Len(s) : MonthDayYearAt(s, i) # <<>>}
    IN  IF hits = {} THEN <<>>
        ELSE MonthDayYearAt(s, CHOOSE i \in hits : \A j \in hits : i <= j)

\* re.search(r'\d{1,2}/\d{1,2}(?:/\d{4})?', s): the matched text, or <<>>
SlashDateAt(s, i) ==
    LET afterMonth == IF AllDigits(s, i, 2) /\ i + 2 <= Len(s) /\ s[i + 2] = "/"
                      THEN i + 2 ELSE i + 1
        afterDay   == IF AllDigits(s, afterMonth + 1, 2) THEN afterMonth + 3
                      ELSE afterMonth + 2
    IN  IF /\ AllDigits(s, i, 1)
           /\ afterMonth <= Len(s) /\ s[afterMonth] = "/"
           /\ AllDigits(s, afterMonth + 1, 1)
        THEN IF afterDay <= Len(s) /\ s[afterDay] = "/" /\ AllDigits(s, afterDay + 1, 4)
             THEN SubSeq(s, i, afterDay + 4)
             ELSE SubSeq(s, i, afterDay - 1)
        ELSE <<>>

SearchSlashDateText(s) ==
    LET hits == {i \in 1..Len(s) : SlashDateAt(s, i) # <<>>}
    IN  IF hits = {} THEN <<>>
        ELSE SlashDateAt(s, CHOOSE i \in hits : \A j \in hits : i <= j)

HasYear(s) == \E i \in 1..Len(s) : AllDigits(s, i, 4)

\* date_part with ", <current year>" added when it holds no year
WithYear(date_part) ==
    IF HasYear(date_part) THEN date_part
    ELSE date_part \o <<","," ">> \o Pad4(CurrentYear)

MonthDayYearDate(date_part) ==
    IF date_part = <<>> THEN <<>>
    ELSE DateOfFields(
             OrElse(Strptime(WithYear(date_part), <<"%B"," ","%d",","," ","%Y">>),
                    Strptime(WithYear(date_part), <<"%b"," ","%d",","," ","%Y">>)),
             1900)

SlashDate(date_part) ==
    IF date_part = <<>> THEN <<>>
    ELSE DateOfFields(
             Strptime(IF Cardinality({i \in 1..Len(date_part) : date_part[i] = "/"}) = 1
                      THEN date_part \o <<"/">> \o Pad4(CurrentYear) ELSE date_part,
                      <<"%m","/","%d","/","%Y">>),
             1900)

\* the two regular-expression fall-backs that follow dateutil
RegexFallback(cleaned_date) ==
    OrElse(MonthDayYearDate(SearchMonthDayYear(cleaned_date)),
           SlashDate(SearchSlashDateText(cleaned_date)))

\* the attempts of _parse_event_date in their order
ParseCleanedDate(cleaned_date) ==
    OrElse(FirstFormat(cleaned_date, date_formats, 1),
           OrElse(DateutilParse(cleaned_date), RegexFallback(cleaned_date)))

\* _parse_event_date on a text: <<date>>, or <<>> for None
ParseEventDateText(date_str) ==
    IF ~Truthy(date_str) \/ date_str = DateNotSpecified THEN <<>>
    ELSE ParseCleanedDate(Strip(date_str))


(***************************************************************************)
(* The school events a run is fed                                          *)
(***************************************************************************)
LunchVisitors == <<"L","u","n","c","h"," ","V","i","s","i","t","o","r","s"," ","W","e","l","c","o","m","e">>

LunchVisitorsBang == <<"L","u","n","c","h"," ","V","i","s","i","t","o","r","s"," ","W","e","l","c","o","m","e","!">>

PtaMeeting == <<"P","T","A"," ","M","e","e","t","i","n","g">>

ToBeAnnounced == <<"T","B","D">>

Brookwood == "Brookwood Elementary School"

Shiloh == "Shiloh Elementary School"

\* the display form _format_date gives a calendar date
DisplayDate(d) == Strftime(<<"%a",","," ","%b"," ","%d",","," ","%Y">>, d)

\* an event as _parse_event_element builds it ('date' and 'when' hold one text)
SchoolEvent(title, when, address) ==
    [title |-> title, date |-> when, when |-> when, address |-> address,
     description |-> <<>>]

SchoolDates ==
    { MkDate(2025, 8, 31), MkDate(2025, 9, 2), MkDate(2025, 9, 3),
      MkDate(2025, 9, 4), MkDate(2025, 9, 5) }

SchoolEvents ==
    {SchoolEvent(LunchVisitors, DisplayDate(d), Brookwood) : d \in SchoolDates}
    \cup { SchoolEvent(LunchVisitors, ToBeAnnounced, Brookwood),
           SchoolEvent(LunchVisitorsBang, DisplayDate(MkDate(2025, 9, 4)), Brookwood),
           SchoolEvent(LunchVisitors, DisplayDate(MkDate(2025, 9, 3)), Shiloh),
           SchoolEvent(PtaMeeting, DateNotSpecified, Brookwood) }

\* _parse_event_date on the date texts of the events above, computed once
ParsedDateTexts ==
    [date_str \in {e.when : e \in SchoolEvents} |-> ParseEventDateText(date_str)]

ParseEventDate(date_str) ==
    IF date_str \in DOMAIN ParsedDateTexts
    THEN ParsedDateTexts[date_str]
    ELSE ParseEventDateText(date_str)

(***************************************************************************)
(* SchoolsTool._consolidate_recurring_events                               *)
(***************************************************************************)
\* the members of a sequence at the positions in keep, in order
RECURSIVE PickFrom(_, _, _)
PickFrom(seq, keep, i) ==
    IF i > Len(seq) THEN <<>>
    ELSE (IF i \in keep THEN <<seq[i]>> ELSE <<>>) \o PickFrom(seq, keep, i + 1)

Pick(seq, keep) == PickFrom(seq, keep, 1)

IsWordChar(c) == IsLetter(c) \/ IsDigit(c) \/ c = "_"

\* re.sub(r'[^\w\s]', '', s)
RemovePunctuation(s) ==
    Pick(s, {i \in 1..Len(s) : IsWordChar(s[i]) \/ IsSpace(s[i])})

NormalizedTitleText(title) == Strip(RemovePunctuation(Lower(title)))

\* the normalized titles of the school events, computed once
NormalizedTitles ==
    [title \in {e.title : e \in SchoolEvents} |-> NormalizedTitleText(title)]

NormalizedTitle(title) ==
    IF title \in DOMAIN NormalizedTitles
    THEN NormalizedTitles[title]
    ELSE NormalizedTitleText(title)

GroupKey(event) == <<NormalizedTitle(event.title), event.address>>

\* the positions at which a group key occurs for the first time: the order in
\* which title_groups yields its groups
GroupStarts(events) ==
    {i \in 1..Len(events) :
        \A j \in 1..(i - 1) : GroupKey(events[j]) # GroupKey(events[i])}

GroupOf(events, i) ==
    Pick(events, {j \in 1..Len(events) : GroupKey(events[j]) = GroupKey(events[i])})

\* the (parsed_date, event) pair of an event whose 'when' parses
DatedPair(parsed_date, event) ==
    IF parsed_date # <<>> THEN <<[date |-> parsed_date[1], event |-> event]>> ELSE <<>>

RECURSIVE DatedEvents(_, _)
DatedEvents(group_events, i) ==
    IF i > Len(group_events) THEN <<>>
    ELSE DatedPair(ParseEventDate(group_events[i].when), group_events[i])
         \o DatedEvents(group_events, i + 1)

UndatedEvents(group_events) ==
    Pick(group_events,
         {j \in 1..Len(group_events) : ParseEventDate(group_events[j].when) = <<>>})

\* list.sort(key=lambda x: x[0]): a stable sort by date
RECURSIVE InsertAfterEqual(_, _)
InsertAfterEqual(sorted, item) ==
    IF sorted = <<>> THEN <<item>>
    ELSE IF ToOrdinal(item.date) < ToOrdinal(Head(sorted).date)
         THEN <<item>> \o sorted
         ELSE <<Head(sorted)>> \o InsertAfterEqual(Tail(sorted), item)

RECURSIVE SortByDate(_, _)
SortByDate(dated_events, n) ==
    IF n = 0 THEN <<>>
    ELSE InsertAfterEqual(SortByDate(dated_events, n - 1), dated_events[n])

\* the largest gap, in days, that keeps two successive dates in one range
RangeGapDays == 2

\* DateRanges without the closing append of the run in progress
RECURSIVE DateRangesForgetsLast(_, _, _)
DateRangesForgetsLast(dated_events, i, current_range) ==
    IF i > Len(dated_events) THEN <<>>
    ELSE LET current_date == dated_events[i].date
             last_date    == current_range[Len(current_range)].date
         IN  IF DaysBetween(current_date, last_date) <= RangeGapDays
             THEN DateRangesForgetsLast(dated_events, i + 1,
                                        Append(current_range, dated_events[i]))
             ELSE <<current_range>>
                  \o DateRangesForgetsLast(dated_events, i + 1, <<dated_events[i]>>)

\* DateRanges that splits a run at a gap of RangeGapDays already
RECURSIVE DateRangesSplitsAtGap(_, _, _)
DateRangesSplitsAtGap(dated_events, i, current_range) ==
    IF i > Len(dated_events) THEN <<current_range>>
    ELSE LET current_date == dated_events[i].date
             last_date    == current_range[Len(current_range)].date
         IN  IF DaysBetween(current_date, last_date) < RangeGapDays
             THEN DateRangesSplitsAtGap(dated_events, i + 1,
                                        Append(current_range, dated_events[i]))
             ELSE <<current_range>>
                  \o DateRangesSplitsAtGap(dated_events, i + 1, <<dated_events[i]>>)

\* the runs of successive dates no more than RangeGapDays apart
RECURSIVE DateRanges(_, _, _)
DateRanges(dated_events, i, current_range) ==
    IF i > Len(dated_events) THEN <<current_range>>
    ELSE LET current_date == dated_events[i].date
             last_date    == current_range[Len(current_range)].date
         IN  IF DaysBetween(current_date, last_date) <= RangeGapDays
             THEN DateRanges(dated_events, i + 1, Append(current_range, dated_events[i]))
             ELSE <<current_range>> \o DateRanges(dated_events, i + 1, <<dated_events[i]>>)

\* the label of a run from start_date to end_date
DateRangeStr(start_date, end_date) ==
    IF start_date = end_date
    THEN Strftime(<<"%a",","," ","%b"," ","%d",","," ","%Y">>, start_date)
    ELSE IF start_date.month = end_date.month
    THEN Strftime(<<"%b"," ","%d">>, start_date) \o <<"-">>
         \o Strftime(<<"%d",","," ","%Y">>, end_date)
    ELSE Strftime(<<"%b"," ","%d">>, start_date) \o <<" ","-"," ">>
         \o Strftime(<<"%b"," ","%d",","," ","%Y">>, end_date)

\* the event emitted for one run
ConsolidatedEvent(date_range) ==
    IF Len(date_range) = 1 THEN date_range[1].event
    ELSE LET first_event == date_range[1].event
             start_date  == date_range[1].date
             end_date    == date_range[Len(date_range)].date
         IN  [first_event EXCEPT
                 !.when = DateRangeStr(start_date, end_date),
                 !.description =
                     Strip(first_event.description \o RecurringPrefix
                           \o Str(Len(date_range)) \o RecurringSuffix)]

RECURSIVE ConsolidatedRanges(_, _)
ConsolidatedRanges(date_ranges, i) ==
    IF i > Len(date_ranges) THEN <<>>
    ELSE <<ConsolidatedEvent(date_ranges[i])>> \o ConsolidatedRanges(date_ranges, i + 1)

\* the events of the sorted dated events, run by run
ConsolidateSorted(sorted) == ConsolidatedRanges(DateRanges(sorted, 2, <<sorted[1]>>), 1)

\* lines 1254-1309: the whole group again when none of its events has a date
ConsolidateDated(group_events, dated_events) ==
    IF dated_events = <<>> THEN group_events
    ELSE ConsolidateSorted(SortByDate(dated_events, Len(dated_events)))

\* what one title group appends to consolidated_events
ConsolidateGroup(group_events) ==
    IF Len(group_events) = 1 THEN group_events
    ELSE UndatedEvents(group_events)
         \o ConsolidateDated(group_events, DatedEvents(group_events, 1))

RECURSIVE ConsolidateGroups(_, _)
ConsolidateGroups(events, i) ==
    IF i > Len(events) THEN <<>>
    ELSE (IF i \in GroupStarts(events) THEN ConsolidateGroup(GroupOf(events, i))
          ELSE <<>>) \o ConsolidateGroups(events, i + 1)

ConsolidateRecurringEvents(events) ==
    IF events = <<>> THEN events ELSE ConsolidateGroups(events, 1)


(***************************************************************************)
(* Deduplication stages                                                    *)
(***************************************************************************)
\* SchoolsTool._deduplicate_events: first event of each "title|date" key
SchoolsDedupeKey(event) ==
    <<Strip(Lower(event.title)), Strip(Lower(event.date))>>

RECURSIVE SchoolsDedupeLoop(_, _, _, _)
SchoolsDedupeLoop(events, i, seen, unique_events) ==
    IF i > Len(events) THEN unique_events
    ELSE LET key == SchoolsDedupeKey(events[i])
         IN  IF key \notin seen
             THEN SchoolsDedupeLoop(events, i + 1, seen \cup {key},
                                    Append(unique_events, events[i]))
             ELSE SchoolsDedupeLoop(events, i + 1, seen, unique_events)

SchoolsDeduplicateEvents(events) == SchoolsDedupeLoop(events, 1, {}, <<>>)

\* routes/events._deduplicate_events: first event of each "title|website" key
RoutesDedupeKey(event) ==
    <<Strip(Lower(event.title)),
      IF Truthy(event.website) THEN Strip(Lower(event.website)) ELSE <<>> >>

RECURSIVE RoutesDedupeLoop(_, _, _, _)
RoutesDedupeLoop(events, i, seen, unique_events) ==
    IF i > Len(events) THEN unique_events
    ELSE LET key == RoutesDedupeKey(events[i])
         IN  IF key \notin seen
             THEN RoutesDedupeLoop(events, i + 1, seen \cup {key},
                                   Append(unique_events, events[i]))
             ELSE RoutesDedupeLoop(events, i + 1, seen, unique_events)

RoutesDeduplicateEvents(events) == RoutesDedupeLoop(events, 1, {}, <<>>)

\* The URL/title pass that ends ChurchesTool._scrape_snellville_community_church.
\* events.index(event): the position of the first event equal to this one
IndexOf(events, event) ==
    CHOOSE j \in 1..Len(events) :
        /\ events[j] = event
        /\ \A k \in 1..(j - 1) : events[k] # event

\* the first later event titled by this event's description, with the same URL
BetterVersions(events, event) ==
    LET description == Strip(Lower(event.description))
    IN  {j \in (IndexOf(events, event) + 1)..Len(events) :
            LET other_title == Strip(Lower(events[j].title))
            IN  /\ (other_title = description \/ Contains(other_title, description))
                /\ events[j].url = event.url}

IsDuplicateTitle(event_title, seen_titles) ==
    \E seen_title \in seen_titles :
        /\ Contains(seen_title, event_title) \/ Contains(event_title, seen_title)
        /\ Len(event_title) > 5

Remember(acc, event) ==
    [deduplicated_events |-> Append(acc.deduplicated_events, event),
     seen_urls   |-> IF HasUrl(event.url) THEN acc.seen_urls \cup {event.url}
                     ELSE acc.seen_urls,
     seen_titles |-> acc.seen_titles \cup {Strip(Lower(event.title))}]

SnellvilleVisit(events, i, acc) ==
    LET event       == events[i]
        event_title == Strip(Lower(event.title))
        better      == BetterVersions(events, event)
    IN  IF HasUrl(event.url) /\ event.url \in acc.seen_urls THEN acc
        ELSE IF IsDuplicateTitle(event_title, acc.seen_titles) THEN acc
        ELSE IF /\ LooksLikeDate(event_title)
                /\ Truthy(event.description)
                /\ better # {}
             THEN Remember(acc, events[CHOOSE j \in better : \A k \in better : j <= k])
             ELSE Remember(acc, event)

RECURSIVE SnellvilleLoop(_, _, _)
SnellvilleLoop(events, i, acc) ==
    IF i > Len(events) THEN acc
    ELSE SnellvilleLoop(events, i + 1, SnellvilleVisit(events, i, acc))

SnellvilleDeduplicate(events) ==
    SnellvilleLoop(events, 1,
        [deduplicated_events |-> <<>>, seen_urls |-> {}, seen_titles |-> {}]
    ).deduplicated_events

(***************************************************************************)
(* Inputs of the list stages                                               *)
(***************************************************************************)
\* the longest list of events a run feeds to a stage
MaxEvents == 4

\* the sequences over S of length 0..n
RECURSIVE SeqsUpTo(_, _)
SeqsUpTo(S, n) ==
    IF n = 0 THEN {<<>>}
    ELSE LET shorter == SeqsUpTo(S, n - 1)
         IN  shorter \cup {Append(q, x) : q \in {r \in shorter : Len(r) = n - 1}, x \in S}

(***************************************************************************)
(* Recurring-event consolidation as a run: one list in, one call           *)
(***************************************************************************)
InitConsolidate ==
    /\ tool = "SchoolsTool"
    /\ call = "none"
    /\ arg \in SeqsUpTo(SchoolEvents, MaxEvents)
    /\ ret = <<>>
    /\ applied = 0

ConsolidateRecurring ==
    /\ tool = "SchoolsTool"
    /\ call = "none"
    /\ call' = "_consolidate_recurring_events"
    /\ ret' = ConsolidateRecurringEvents(arg)
    /\ applied' = applied + 1
    /\ UNCHANGED <<tool, arg>>

NextConsolidate == ConsolidateRecurring

SpecConsolidate == InitConsolidate /\ [][NextConsolidate]_vars

(***************************************************************************)
(* Properties of the consolidation                                         *)
(***************************************************************************)
Consolidated == call = "_consolidate_recurring_events"

Occurrences(seq, e) == Cardinality({i \in 1..Len(seq) : seq[i] = e})

IsDated(event) == ParseEventDate(event.when) # <<>>

DatedCount(events, key) ==
    Cardinality({i \in 1..Len(events) : GroupKey(events[i]) = key /\ IsDated(events[i])})

\* the days an output event covers: end - start + 1 when its label is that of a
\* range, 1 when it is a single date, 0 when it has no date
RangeLabels ==
    [p \in {q \in SchoolDates \X SchoolDates : ToOrdinal(q[1]) < ToOrdinal(q[2])}
        |-> DateRangeStr(p[1], p[2])]

DaysCovered(event) ==
    LET spans == {p \in DOMAIN RangeLabels : RangeLabels[p] = event.when}
    IN  IF spans # {}
        THEN LET p == CHOOSE p \in spans : TRUE IN DaysBetween(p[2], p[1]) + 1
        ELSE IF IsDated(event) THEN 1 ELSE 0

RecurringNote == Tail(RecurringPrefix)

RECURSIVE SkipDigits(_, _)
SkipDigits(s, i) ==
    IF i <= Len(s) /\ IsDigit(s[i]) THEN SkipDigits(s, i + 1) ELSE i

\* the number of dates an output event stands for: the N of its
\* "(Recurring event: N dates)" note, 1 for a dated event without the note
RecordedDates(event) ==
    LET d    == event.description
        hits == {i \in 1..Len(d) : MatchAt(d, i, RecurringNote)}
    IN  IF hits # {}
        THEN LET i == (CHOOSE i \in hits : TRUE) + Len(RecurringNote)
             IN  NumberOf(SubSeq(d, i, SkipDigits(d, i) - 1))
        ELSE IF IsDated(event) THEN 1 ELSE 0

RECURSIVE DaysCoveredBy(_, _, _)
DaysCoveredBy(events, i, key) ==
    IF i > Len(events) THEN 0
    ELSE (IF GroupKey(events[i]) = key THEN DaysCovered(events[i]) ELSE 0)
         + DaysCoveredBy(events, i + 1, key)

RECURSIVE DatesRecordedBy(_, _, _)
DatesRecordedBy(events, i, key) ==
    IF i > Len(events) THEN 0
    ELSE (IF GroupKey(events[i]) = key THEN RecordedDates(events[i]) ELSE 0)
         + DatesRecordedBy(events, i + 1, key)

GroupKeys(events) == {GroupKey(events[i]) : i \in 1..Len(events)}

\* C2 as claimed: for every (normalized title, venue) group the days covered by
\* the output events sum to the number of dated input events of the group.
C2_DaysCoveredEqualCount ==
    Consolidated =>
        \A key \in GroupKeys(arg) : DaysCoveredBy(ret, 1, key) = DatedCount(arg, key)

\* C2 as amended: for every (normalized title, venue) group the numbers of dates
\* the output events stand for (the N of a merged run's note, 1 for an unmerged
\* dated event) sum to the number of dated input events of the group.
C2_RecordedDatesEqualCount ==
    Consolidated =>
        \A key \in GroupKeys(arg) : DatesRecordedBy(ret, 1, key) = DatedCount(arg, key)

\* a merged run of three dates that spans more days than it has dates
C2_Witness ==
    /\ Consolidated
    /\ \E i \in 1..Len(ret) :
          RecordedDates(ret[i]) = 3 /\ DaysCovered(ret[i]) > 3

\* C3: an event whose date cannot be parsed appears in the output exactly as
\* many times as in the input.
C3_UndatedPassThroughOnce ==
    Consolidated =>
        \A i \in 1..Len(arg) :
            ~IsDated(arg[i]) => Occurrences(ret, arg[i]) = Occurrences(arg, arg[i])

\* the dates of the dated events of a group
GroupDates(events, key) ==
    {ParseEventDate(events[i].when)[1] :
        i \in {j \in 1..Len(events) : GroupKey(events[j]) = key /\ IsDated(events[j])}}

\* a date starts a run when no earlier date of the group is within
\* RangeGapDays of it
RunStarts(dates) ==
    {d \in dates : \A e \in dates :
        ToOrdinal(e) < ToOrdinal(d) => ToOrdinal(d) - ToOrdinal(e) > RangeGapDays}

\* the dates of the run that starts at start: those before the next start
RunOf(dates, start) ==
    {d \in dates :
        /\ ToOrdinal(d) >= ToOrdinal(start)
        /\ \A s \in RunStarts(dates) :
              ToOrdinal(s) > ToOrdinal(start) => ToOrdinal(d) < ToOrdinal(s)}

LastOf(dates) == CHOOSE d \in dates : \A e \in dates : ToOrdinal(e) <= ToOrdinal(d)

\* the dated events of a group that fall on the dates of a run
EventsOn(events, key, dates) ==
    {i \in 1..Len(events) :
        /\ GroupKey(events[i]) = key
        /\ IsDated(events[i])
        /\ ParseEventDate(events[i].when)[1] \in dates}

\* the output events of a group that stand for dates
RunEvents(events, key) ==
    {i \in 1..Len(events) : GroupKey(events[i]) = key /\ RecordedDates(events[i]) > 0}

\* a run of more than one event is emitted as one event that carries the label
\* of its first and last date and the number of its events
EmittedAsOne(events, n, start, end) ==
    n > 1 => \E i \in 1..Len(events) :
                /\ events[i].when = DateRangeStr(start, end)
                /\ RecordedDates(events[i]) = n

\* C13: in a (normalized title, venue) group sorted by date, successive events
\* are in one run exactly when their dates are at most 2 days apart, and the
\* consolidation emits one event per run: the output events of the group that
\* stand for dates are as many as its runs, and each run of several events is
\* emitted under the label of its first and last date.
C13_OneEventPerRun ==
    Consolidated =>
        \A key \in GroupKeys(arg) :
            /\ Cardinality(RunEvents(ret, key))
                  = Cardinality(RunStarts(GroupDates(arg, key)))
            /\ \A start \in RunStarts(GroupDates(arg, key)) :
                  EmittedAsOne(ret,
                               Cardinality(EventsOn(arg, key,
                                                    RunOf(GroupDates(arg, key), start))),
                               start,
                               LastOf(RunOf(GroupDates(arg, key), start)))

\* Aug 31, Sep 2 and Sep 5 at one venue: the gap of 2 days merges, the gap of 3
\* days splits
C13_Witness ==
    /\ Consolidated
    /\ arg = <<SchoolEvent(LunchVisitors, DisplayDate(MkDate(2025, 9, 5)), Brookwood),
               SchoolEvent(LunchVisitors, DisplayDate(MkDate(2025, 8, 31)), Brookwood),
               SchoolEvent(LunchVisitors, DisplayDate(MkDate(2025, 9, 2)), Brookwood)>>
    /\ Len(ret) = 2
    /\ RecordedDates(ret[1]) = 2
    /\ ret[2] = arg[1]

LunchOn(day) == SchoolEvent(LunchVisitors, DisplayDate(MkDate(2025, 9, day)), Brookwood)

\* C5: "Lunch Visitors Welcome" on Sep 2, 3, 4, 5 of 2025 at one venue gives one
\* event labelled "Sep 2-5, 2025".
C5_LunchVisitorsLabel ==
    (Consolidated /\ arg = <<LunchOn(2), LunchOn(3), LunchOn(4), LunchOn(5)>>) =>
        (Len(ret) = 1 /\ ret[1].when = <<"S","e","p"," ","2","-","5",","," ","2","0","2","5">>)

(***************************************************************************)
(* The deduplication stages as runs: one list in, the stage applied, then  *)
(* applied again to its own output                                         *)
(***************************************************************************)
\* the number of times a run applies a stage to its own output
MaxPasses == 2

DateTitle == <<"S","e","p","t"," ","1","0"," ","@","6","p","m">>

FallOpenHouse == <<"F","a","l","l"," ","O","p","e","n"," ","H","o","u","s","e">>

FallOpenHouseParty == FallOpenHouse \o <<" ","P","a","r","t","y">>

Gala == <<"G","a","l","a">>

\* an event as _scrape_snellville_community_church collects it
ChurchEvent(title, url, description) ==
    [title |-> title, url |-> url, description |-> description]

ChurchEvents ==
    { ChurchEvent(DateTitle, "events/open-house", FallOpenHouse),
      ChurchEvent(DateTitle, "events/open-house", <<>>),
      ChurchEvent(FallOpenHouse, "events/open-house", <<>>),
      ChurchEvent(FallOpenHouse, "", <<>>),
      ChurchEvent(FallOpenHouseParty, "events/party", <<>>),
      ChurchEvent(Gala, "", <<>>) }

SchoolDedupeEvents ==
    { SchoolEvent(LunchVisitors, DisplayDate(MkDate(2025, 9, 2)), Brookwood),
      SchoolEvent(<<" ">> \o Lower(LunchVisitors), DisplayDate(MkDate(2025, 9, 2)), Shiloh),
      SchoolEvent(LunchVisitors, DisplayDate(MkDate(2025, 9, 3)), Brookwood),
      SchoolEvent(LunchVisitors, <<>>, Brookwood),
      SchoolEvent(PtaMeeting, DateNotSpecified, Brookwood) }

\* an event as the unified route receives it from the agents
RouteEvent(title, website) == [title |-> title, website |-> website]

RouteEvents ==
    { RouteEvent(Gala, <<>>),
      RouteEvent(Gala, <<"a",".","o","r","g">>),
      RouteEvent(<<"G","A","L","A"," ">>, <<"A",".","o","r","g">>),
      RouteEvent(FallOpenHouse, <<"a",".","o","r","g">>),
      RouteEvent(FallOpenHouse, <<>>) }

InitDedupe ==
    /\ \/ tool = "SchoolsTool" /\ arg \in SeqsUpTo(SchoolDedupeEvents, MaxEvents)
       \/ tool = "routes.events" /\ arg \in SeqsUpTo(RouteEvents, MaxEvents)
       \/ tool = "ChurchesTool" /\ arg \in SeqsUpTo(ChurchEvents, MaxEvents)
    /\ call = "none"
    /\ ret = <<>>
    /\ applied = 0

\* the list a pass reads: the run's input, then the output of the pass before
PassInput == IF applied = 0 THEN arg ELSE ret

SchoolsDedupe ==
    /\ tool = "SchoolsTool"
    /\ applied < MaxPasses
    /\ call' = "_deduplicate_events"
    /\ arg' = PassInput
    /\ ret' = SchoolsDeduplicateEvents(PassInput)
    /\ applied' = applied + 1
    /\ UNCHANGED tool

RoutesDedupe ==
    /\ tool = "routes.events"
    /\ applied < MaxPasses
    /\ call' = "_deduplicate_events"
    /\ arg' = PassInput
    /\ ret' = RoutesDeduplicateEvents(PassInput)
    /\ applied' = applied + 1
    /\ UNCHANGED tool

SnellvilleDedupe ==
    /\ tool = "ChurchesTool"
    /\ applied < MaxPasses
    /\ call' = "_scrape_snellville_community_church"
    /\ arg' = PassInput
    /\ ret' = SnellvilleDeduplicate(PassInput)
    /\ applied' = applied + 1
    /\ UNCHANGED tool

NextDedupe == SchoolsDedupe \/ RoutesDedupe \/ SnellvilleDedupe

SpecDedupe == InitDedupe /\ [][NextDedupe]_vars

(***************************************************************************)
(* Properties of the deduplication stages                                  *)
(***************************************************************************)
\* a second pass has run: arg is the first pass's output, ret the second's
Repassed == applied >= 2

\* C1: each deduplication stage is idempotent: applied to its own output it
\* returns that output unchanged.
C1_DedupeIdempotent == Repassed => ret = arg

\* the same for the two key-based stages alone
KeyedDedupeIdempotent == (Repassed /\ tool # "ChurchesTool") => ret = arg

\* the identity of an event for a stage: the key the stage compares, for the
\* Snellville pass the lowered title with the URL
Identity(stage, event) ==
    CASE stage = "SchoolsTool"   -> SchoolsDedupeKey(event)
      [] stage = "routes.events" -> RoutesDedupeKey(event)
      [] OTHER                   -> <<Strip(Lower(event.title)), event.url>>

Identities(stage, events) == {Identity(stage, events[i]) : i \in 1..Len(events)}

DedupeBy(stage, events) ==
    CASE stage = "SchoolsTool"   -> SchoolsDeduplicateEvents(events)
      [] stage = "routes.events" -> RoutesDeduplicateEvents(events)
      [] OTHER                   -> SnellvilleDeduplicate(events)

\* the lists that hold the events of a list in another order
Reorderings(events) ==
    IF events = <<>> THEN {events}
    ELSE {[i \in 1..Len(events) |-> events[p[i]]] : p \in Permutations(1..Len(events))}

\* the first pass of a stage has run on the run's input
Deduped == applied = 1

\* C14: the decisions of a deduplication stage do not depend on the order of its
\* input: on every reordering of a list it retains the same set of identities,
\* and so the same number of events.
C14_DedupeOrderIndependent ==
    Deduped =>
        \A reordered \in Reorderings(arg) :
            /\ Identities(tool, DedupeBy(tool, reordered)) = Identities(tool, ret)
            /\ Len(DedupeBy(tool, reordered)) = Len(ret)

\* the same for the two key-based stages alone
KeyedDedupeOrderIndependent ==
    (Deduped /\ tool # "ChurchesTool") =>
        \A reordered \in Reorderings(arg) :
            /\ Identities(tool, DedupeBy(tool, reordered)) = Identities(tool, ret)
            /\ Len(DedupeBy(tool, reordered)) = Len(ret)

\* the identity a stage is to compare: the normalized title with the link, or
\* with the venue label where the events of the stage carry no link of their
\* own (a school event carries the calendar page of its school)
StatedIdentity(stage, event) ==
    CASE stage = "SchoolsTool"   -> <<Strip(Lower(event.title)), event.address>>
      [] stage = "routes.events" -> <<Strip(Lower(event.title)), Strip(Lower(event.website))>>
      [] OTHER                   -> <<Strip(Lower(event.title)), event.url>>

\* the first event of each identity group, in the order of the list
FirstOfEachIdentity(stage, events) ==
    Pick(events,
         {i \in 1..Len(events) :
             \A j \in 1..(i - 1) :
                 StatedIdentity(stage, events[j]) # StatedIdentity(stage, events[i])})

\* C15: a deduplication stage returns exactly the first event of each identity
\* group, in input order, where the identity is the normalized title with the
\* link URL (with the venue label when there is no link): events that differ in
\* title or URL are never merged and events equal in both always are.
C15_DedupeKeepsFirstOfIdentity ==
    Deduped => ret = FirstOfEachIdentity(tool, arg)

\* the same for the stage of the unified route alone
RoutesDedupeKeepsFirstOfIdentity ==
    (Deduped /\ tool = "routes.events") => ret = FirstOfEachIdentity(tool, arg)

\* the first Snellville pass has run on the run's input
SnellvilleDeduped == tool = "ChurchesTool" /\ applied = 1

TitledByDate(event) == LooksLikeDate(Strip(Lower(event.title)))

SharedUrls(events) ==
    {events[i].url : i \in {k \in 1..Len(events) : HasUrl(events[k].url)}}

\* C4: when an event titled by a date and an event with a proper title share a
\* URL, the survivor for that URL is the properly titled one, whichever of the
\* two comes first.
C4_ProperTitleSurvives ==
    SnellvilleDeduped =>
        \A url \in SharedUrls(arg) :
            (/\ \E i \in 1..Len(arg) : arg[i].url = url /\ TitledByDate(arg[i])
             /\ \E i \in 1..Len(arg) : arg[i].url = url /\ ~TitledByDate(arg[i]))
            => /\ \E i \in 1..Len(ret) : ret[i].url = url
               /\ \A i \in 1..Len(ret) : ret[i].url = url => ~TitledByDate(ret[i])

\* the substitution the code does make: a date-titled event whose description
\* names a later event of the same URL is replaced by that event
BetterVersionKept ==
    (/\ SnellvilleDeduped
     /\ Len(arg) = 2
     /\ arg[1] = ChurchEvent(DateTitle, "events/open-house", FallOpenHouse)
     /\ arg[2] = ChurchEvent(FallOpenHouse, "events/open-house", <<>>))
    => ret = <<arg[2]>>

(***************************************************************************)
(* The date filters of the source adapters                                 *)
(***************************************************************************)
DEFAULT_DAYS_AHEAD == 14

INCLUDE_TODAY == TRUE

NextDay(d) ==
    IF d.day < DaysInMonth(d.year, d.month) THEN MkDate(d.year, d.month, d.day + 1)
    ELSE IF d.month < 12 THEN MkDate(d.year, d.month + 1, 1)
    ELSE MkDate(d.year + 1, 1, 1)

\* d + timedelta(days=n)
RECURSIVE AddDays(_, _)
AddDays(d, n) == IF n = 0 THEN d ELSE AddDays(NextDay(d), n - 1)

\* date.isoformat()
IsoFormat(d) == Strftime(<<"%Y","-","%m","-","%d">>, d)

\* the date of the fields when the month has that day
IsoDateOf(year, month, day) ==
    IF month \in 1..12 /\ day >= 1 /\ day <= DaysInMonth(year, month)
    THEN <<MkDate(year, month, day)>> ELSE <<>>

\* datetime.fromisoformat(s).date() for YYYY-MM-DD and YYYY-MM-DDTHH:MM:SS:
\* <<date>>, or <<>> when it raises ValueError
FromIsoformat(s) ==
    IF /\ AllDigits(s, 1, 4) /\ MatchAt(s, 5, <<"-">>)
       /\ AllDigits(s, 6, 2) /\ MatchAt(s, 8, <<"-">>)
       /\ AllDigits(s, 9, 2)
       /\ \/ Len(s) = 10
          \/ /\ Len(s) = 19 /\ s[11] = "T"
             /\ AllDigits(s, 12, 2) /\ s[14] = ":"
             /\ AllDigits(s, 15, 2) /\ s[17] = ":"
             /\ AllDigits(s, 18, 2)
    THEN IsoDateOf(NumberOf(SubSeq(s, 1, 4)), NumberOf(SubSeq(s, 6, 7)),
                   NumberOf(SubSeq(s, 9, 10)))
    ELSE <<>>

\* `x = default if not x`
DefaultTo(text, default) == IF Truthy(text) THEN text ELSE default

\* the test of one event's 'date' in ChurchesTool._filter_events_by_date
InBounds(event_date, start_dt, end_dt) ==
    /\ event_date # <<>>
    /\ ToOrdinal(start_dt) <= ToOrdinal(event_date[1])
    /\ ToOrdinal(event_date[1]) <= ToOrdinal(end_dt)

\* the loop of _filter_events_by_date; a bound that is no ISO date raises before
\* the loop and the handler returns the events unfiltered
FilterBetween(events, start_dt, end_dt) ==
    IF start_dt = <<>> \/ end_dt = <<>> THEN events
    ELSE Pick(events,
              {i \in 1..Len(events) :
                  /\ Truthy(events[i].date)
                  /\ InBounds(FromIsoformat(events[i].date), start_dt[1], end_dt[1])})

\* ChurchesTool._filter_events_by_date
ChurchesFilterEventsByDate(events, start_date, end_date) ==
    FilterBetween(events,
        FromIsoformat(DefaultTo(start_date,
            IsoFormat(IF INCLUDE_TODAY THEN Today ELSE NextDay(Today)))),
        FromIsoformat(DefaultTo(end_date,
            IsoFormat(AddDays(Today, DEFAULT_DAYS_AHEAD)))))

\* the end of ChurchesTool.execute: the filter runs when a bound is given
ChurchesReturn(all_events, start_date, end_date) ==
    IF Truthy(start_date) \/ Truthy(end_date)
    THEN ChurchesFilterEventsByDate(all_events, start_date, end_date)
    ELSE all_events

\* a filter without the end of the window
InNextDaysOpenEnded(parsed_date) ==
    \/ parsed_date = <<>>
    \/ ToOrdinal(Today) <= ToOrdinal(parsed_date[1])

\* the test of one event in SchoolsTool._filter_events_by_date_range
InNextDays(parsed_date) ==
    \/ parsed_date = <<>>
    \/ /\ IF INCLUDE_TODAY THEN ToOrdinal(Today) <= ToOrdinal(parsed_date[1])
          ELSE ToOrdinal(Today) < ToOrdinal(parsed_date[1])
       /\ ToOrdinal(parsed_date[1]) <= ToOrdinal(Today) + DEFAULT_DAYS_AHEAD

\* SchoolsTool._filter_events_by_date_range
SchoolsFilterEventsByDateRange(events) ==
    Pick(events,
         {i \in 1..Len(events) :
             InNextDays(ParseEventDate(IF Truthy(events[i].date) THEN events[i].date
                                       ELSE events[i].when))})

\* the end of SchoolsTool.execute
SchoolsReturn(all_events) ==
    ConsolidateRecurringEvents(
        SchoolsFilterEventsByDateRange(SchoolsDeduplicateEvents(all_events)))

(***************************************************************************)
(* The adapters as runs: the events scraped and the caller's bounds in,    *)
(* the returned list out                                                   *)
(***************************************************************************)
IsoSep10 == <<"2","0","2","5","-","0","9","-","1","0","T","1","8",":","0","0",":","0","0">>

IsoDec25 == <<"2","0","2","5","-","1","2","-","2","5","T","1","0",":","0","0",":","0","0">>

\* an event as the church scrapers build it: 'date' is ISO text or None
DatedChurchEvent(title, date) == [title |-> title, date |-> date]

DatedChurchEvents ==
    { DatedChurchEvent(FallOpenHouse, IsoSep10),
      DatedChurchEvent(FallOpenHouse, <<>>),
      DatedChurchEvent(Gala, IsoDec25),
      DatedChurchEvent(Gala, <<>>) }

\* start_date and end_date as a caller gives them: None, an ISO date, other text
StartDates == { <<>>, IsoFormat(Today), <<"s","o","o","n">> }

EndDates == { <<>>, IsoFormat(MkDate(2025, 9, 30)) }

InitAdapters ==
    /\ \/ /\ tool = "ChurchesTool"
          /\ arg \in [events : SeqsUpTo(DatedChurchEvents, MaxEvents),
                      start_date : StartDates, end_date : EndDates]
       \/ /\ tool = "SchoolsTool"
          /\ arg \in [events : SeqsUpTo(SchoolEvents, MaxEvents),
                      start_date : {<<>>}, end_date : {<<>>}]
    /\ call = "none"
    /\ ret = <<>>
    /\ applied = 0

ChurchesExecute ==
    /\ tool = "ChurchesTool"
    /\ call = "none"
    /\ call' = "execute"
    /\ ret' = ChurchesReturn(arg.events, arg.start_date, arg.end_date)
    /\ applied' = applied + 1
    /\ UNCHANGED <<tool, arg>>

SchoolsExecute ==
    /\ tool = "SchoolsTool"
    /\ call = "none"
    /\ call' = "execute"
    /\ ret' = SchoolsReturn(arg.events)
    /\ applied' = applied + 1
    /\ UNCHANGED <<tool, arg>>

NextAdapters == ChurchesExecute \/ SchoolsExecute

SpecAdapters == InitAdapters /\ [][NextAdapters]_vars

(***************************************************************************)
(* Properties of the adapters                                              *)
(***************************************************************************)
Executed == call = "execute"

\* an extracted event whose date is missing or cannot be parsed
Undated(event) ==
    IF tool = "ChurchesTool" THEN ~Truthy(event.date)
    ELSE ParseEventDate(event.when) = <<>>

Returned(event) == \E j \in 1..Len(ret) : ret[j] = event

\* C6: every extracted event with a missing or unparseable date is in the list
\* the adapter returns, with or without start/end bounds.
C6_UndatedEventsReturned ==
    Executed =>
        \A i \in 1..Len(arg.events) : Undated(arg.events[i]) => Returned(arg.events[i])

\* the same for the ways that do keep them: SchoolsTool, and ChurchesTool when
\* no bound is given or a bound is not an ISO date
UndatedKeptWithoutBounds ==
    (/\ Executed
     /\ \/ tool = "SchoolsTool"
        \/ ~Truthy(arg.start_date) /\ ~Truthy(arg.end_date)
        \/ FromIsoformat(arg.start_date) = <<>> /\ Truthy(arg.start_date))
    => \A i \in 1..Len(arg.events) : Undated(arg.events[i]) => Returned(arg.events[i])

(***************************************************************************)
(* The selector cascades: ChurchesTool._scrape_church_calendar_auto and    *)
(* SchoolsTool._extract_calendar_events.                                   *)
(*                                                                         *)
(* A page is what its selectors give.  soup.select(container) raises or    *)
(* returns elements; an element is the outcomes of the title selectors     *)
(* tried on it in order ("raise", "" for no match, or the title found) and *)
(* its own text.  An extracted event is its title; "" stands for None.     *)
(***************************************************************************)
\* the event_container of each pattern of common_selectors
common_selectors == <<".event", "li", ".calendar-event", ".card", "[class*='event']">>

calendar_selectors ==
    << ".fsCalendarDayBox .fsCalendarInfo", ".fsCalendarEventGrid .fsCalendarDayBox",
       ".fsCalendarDayBox", ".fsCalendarEvent", ".fsCalendarLongEvent",
       ".fsCalendarDayViewEvent", "[class*=\"fsCalendar\"][class*=\"Event\"]",
       ".calendar-event", ".event", ".fc-event", ".tribe-events-list-event",
       ".event-item", ".calendar-item", "[class*=\"event\"]", "[class*=\"calendar\"]",
       ".vevent" >>

\* event_elements[:5]
SampleSize == 5

\* events[:5] of the text-pattern stage
TextCap == 5

FirstOf(seq, n) == SubSeq(seq, 1, IF Len(seq) < n THEN Len(seq) ELSE n)

NonEmpty(titles) == Pick(titles, {j \in 1..Len(titles) : titles[j] # ""})

\* try_selectors: a selector that raises or finds no text is passed over
RECURSIVE TrySelectors(_, _)
TrySelectors(outcomes, i) ==
    IF i > Len(outcomes) THEN ""
    ELSE IF outcomes[i] \notin {"raise", ""} THEN outcomes[i]
    ELSE TrySelectors(outcomes, i + 1)

\* _extract_event_data_auto: the title, or None without one
ExtractEventDataAuto(event_element) == TrySelectors(event_element.title, 1)

\* the events with a title among the elements
ChurchEventsOf(event_elements) ==
    NonEmpty([j \in 1..Len(event_elements) |-> ExtractEventDataAuto(event_elements[j])])

\* the loop over common_selectors, were the pattern that works to return the
\* events of its sample only
RECURSIVE ChurchCascadeKeepsSample(_, _, _)
ChurchCascadeKeepsSample(page, p, tried) ==
    IF p > Len(common_selectors) THEN [events |-> <<>>, tried |-> tried]
    ELSE IF page[p].raises THEN [events |-> <<>>, tried |-> Append(tried, p)]
    ELSE IF ChurchEventsOf(FirstOf(page[p].elements, SampleSize)) # <<>>
    THEN [events |-> ChurchEventsOf(FirstOf(page[p].elements, SampleSize)),
          tried |-> Append(tried, p)]
    ELSE ChurchCascadeKeepsSample(page, p + 1, Append(tried, p))

\* the loop over common_selectors; tried lists the patterns whose container
\* selector has been evaluated
RECURSIVE ChurchCascade(_, _, _)
ChurchCascade(page, p, tried) ==
    IF p > Len(common_selectors) THEN [events |-> <<>>, tried |-> tried]
    ELSE IF page[p].raises THEN [events |-> <<>>, tried |-> Append(tried, p)]
    ELSE IF ChurchEventsOf(FirstOf(page[p].elements, SampleSize)) # <<>>
    THEN [events |-> ChurchEventsOf(page[p].elements), tried |-> Append(tried, p)]
    ELSE ChurchCascade(page, p + 1, Append(tried, p))

Staged(result, stages) ==
    [events |-> result.events, tried |-> result.tried, stages |-> stages]

ScrapeChurchCalendarAuto(page) == Staged(ChurchCascade(page, 1, <<>>), <<"selectors">>)

\* the title loop of _parse_event_element: a selector that raises ends the loop
RECURSIVE SchoolTitle(_, _)
SchoolTitle(outcomes, i) ==
    IF i > Len(outcomes) THEN ""
    ELSE IF outcomes[i] # "" THEN outcomes[i]
    ELSE SchoolTitle(outcomes, i + 1)

TitleOrText(title, text) ==
    IF title = "raise" THEN "" ELSE IF title # "" THEN title ELSE text

\* _parse_event_element: the title, the element's text without one, None when
\* anything raises
ParseEventElement(element) == TitleOrText(SchoolTitle(element.title, 1), element.text)

SchoolEventsOf(event_elements) ==
    NonEmpty([j \in 1..Len(event_elements) |-> ParseEventElement(event_elements[j])])

\* SelectorLoop that leaves the loop once a selector has given events
RECURSIVE SelectorLoopStopsAtFirst(_, _, _)
SelectorLoopStopsAtFirst(page, s, acc) ==
    IF s > Len(calendar_selectors) \/ acc.events # <<>> THEN acc
    ELSE SelectorLoopStopsAtFirst(page, s + 1,
             [events |-> acc.events \o (IF page[s].raises THEN <<>>
                                        ELSE SchoolEventsOf(page[s].elements)),
              tried  |-> Append(acc.tried, s)])

\* the loop over calendar_selectors
RECURSIVE SelectorLoop(_, _, _)
SelectorLoop(page, s, acc) ==
    IF s > Len(calendar_selectors) THEN acc
    ELSE SelectorLoop(page, s + 1,
             [events |-> acc.events \o (IF page[s].raises THEN <<>>
                                        ELSE SchoolEventsOf(page[s].elements)),
              tried  |-> Append(acc.tried, s)])

\* unique_events: the first event of each title and date
UniqueEvents(events) ==
    Pick(events, {j \in 1..Len(events) : \A k \in 1..(j - 1) : events[k] # events[j]})

\* _extract_text_pattern_events without its limit
TextPatternEventsUncapped(candidates) == candidates

\* _extract_text_pattern_events: the first events of those the patterns find
TextPatternEvents(candidates) == FirstOf(candidates, TextCap)

\* `if not events: events.extend(<stage>)`
ThenStage(sofar, name, found) ==
    IF sofar.events = <<>>
    THEN [events |-> found, tried |-> sofar.tried, stages |-> Append(sofar.stages, name)]
    ELSE sofar

SelectorStage(looped) == Staged([looped EXCEPT !.events = UniqueEvents(@)], <<"selectors">>)

\* _extract_calendar_events
ExtractCalendarEvents(page) ==
    ThenStage(
        ThenStage(
            ThenStage(
                SelectorStage(SelectorLoop(page.selectors, 1,
                                           [events |-> <<>>, tried |-> <<>>])),
                "google", page.google),
            "structured", page.structured),
        "text", TextPatternEvents(page.text))

(***************************************************************************)
(* The cascades as runs: one page in, the events and the selectors and     *)
(* stages evaluated out                                                    *)
(***************************************************************************)
\* the most selectors of calendar_selectors that match on a page
MaxMatching == 2

Festival == [title |-> <<"Fall Festival">>, text |-> "Fall Festival"]

BookFair == [title |-> <<"raise", "Book Fair">>, text |-> "Book Fair"]

PictureDay == [title |-> <<"", "Picture Day">>, text |-> "Picture Day"]

Untitled == [title |-> <<"">>, text |-> ""]

Matches(elements) == [raises |-> FALSE, elements |-> elements]

SelectRaises == [raises |-> TRUE, elements |-> <<>>]

ChurchOutcomes ==
    { SelectRaises, Matches(<<>>), Matches(<<Festival>>), Matches(<<Untitled>>),
      Matches(<<Untitled, BookFair>>),
      Matches(<<Untitled, Untitled, Untitled, Untitled, Untitled, PictureDay>>) }

SchoolOutcomes == { SelectRaises, Matches(<<Festival>>), Matches(<<BookFair, PictureDay>>) }

SchoolSelectorPages ==
    UNION { { [s \in 1..Len(calendar_selectors) |-> IF s \in S THEN f[s] ELSE Matches(<<>>)]
              : f \in [S -> SchoolOutcomes] }
            : S \in {T \in SUBSET (1..Len(calendar_selectors)) :
                        Cardinality(T) <= MaxMatching} }

TextCandidates ==
    << "PTA meeting", "Board meeting", "Home game", "Talent show", "Band performance",
       "Fall festival", "Career event" >>

InitCascade ==
    /\ \/ /\ tool = "ChurchesTool"
          /\ arg \in [containers : [1..Len(common_selectors) -> ChurchOutcomes]]
       \/ /\ tool = "SchoolsTool"
          /\ arg \in [selectors  : SchoolSelectorPages,
                      google     : {<<>>, <<"Spirit Night">>},
                      structured : {<<>>, <<"Science Fair">>},
                      text       : {<<>>, TextCandidates}]
    /\ call = "none"
    /\ ret = <<>>
    /\ applied = 0

ScrapeChurchCalendar ==
    /\ tool = "ChurchesTool"
    /\ call = "none"
    /\ call' = "_scrape_church_calendar_auto"
    /\ ret' = ScrapeChurchCalendarAuto(arg.containers)
    /\ applied' = applied + 1
    /\ UNCHANGED <<tool, arg>>

ExtractSchoolCalendar ==
    /\ tool = "SchoolsTool"
    /\ call = "none"
    /\ call' = "_extract_calendar_events"
    /\ ret' = ExtractCalendarEvents(arg)
    /\ applied' = applied + 1
    /\ UNCHANGED <<tool, arg>>

NextCascade == ScrapeChurchCalendar \/ ExtractSchoolCalendar

SpecCascade == InitCascade /\ [][NextCascade]_vars

(***************************************************************************)
(* Properties of the cascades                                              *)
(***************************************************************************)
Scraped == call \in {"_scrape_church_calendar_auto", "_extract_calendar_events"}

\* what the page gives each pattern (ChurchesTool) or selector (SchoolsTool)
Containers == IF tool = "ChurchesTool" THEN arg.containers ELSE arg.selectors

UpTo(k) == [j \in 1..k |-> j]

\* the events pattern p gives from all the elements it selects
Yields(p) ==
    IF Containers[p].raises THEN <<>>
    ELSE IF tool = "ChurchesTool" THEN ChurchEventsOf(Containers[p].elements)
    ELSE SchoolEventsOf(Containers[p].elements)

\* pattern p works: it gives an event (from its first SampleSize elements, for
\* ChurchesTool)
Works(p) ==
    /\ ~Containers[p].raises
    /\ IF tool = "ChurchesTool"
       THEN ChurchEventsOf(FirstOf(Containers[p].elements, SampleSize)) # <<>>
       ELSE SchoolEventsOf(Containers[p].elements) # <<>>

FirstSuch(k, Holds(_)) == Holds(k) /\ \A j \in 1..(k - 1) : ~Holds(j)

\* the events of the selector stage: those returned unless a later stage ran
SelectorEvents == IF Len(ret.stages) = 1 THEN ret.events ELSE <<>>

Decisive(p) == Containers[p].raises \/ Works(p)

Ran(stage) == \E n \in 1..Len(ret.stages) : ret.stages[n] = stage

StageOrder == <<"selectors", "google", "structured", "text">>

\* what the page gives stage n of StageOrder, before any limit
StageFinds(n) ==
    CASE n = 1 -> SelectorEvents
      [] n = 2 -> arg.google
      [] n = 3 -> arg.structured
      [] n = 4 -> arg.text

Quiet(element) ==
    [element EXCEPT !.title = [j \in 1..Len(@) |-> IF @[j] = "raise" THEN "" ELSE @[j]]]

QuietContainers(containers) ==
    [p \in DOMAIN containers |->
        Matches([j \in 1..Len(containers[p].elements) |-> Quiet(containers[p].elements[j])])]

\* C9: a selector that raises counts as no match for that element only: the
\* events returned are those of the same page with the raising selector matching
\* nothing.
C9_RaiseIsNoMatch ==
    Scraped =>
        ret.events =
            IF tool = "ChurchesTool"
            THEN ScrapeChurchCalendarAuto(QuietContainers(arg.containers)).events
            ELSE ExtractCalendarEvents(
                     [arg EXCEPT !.selectors = QuietContainers(@)]).events

\* the one place where that is so: a title selector that raises inside
\* try_selectors, on a church page whose container selectors do not raise
TrySelectorsRaiseIsNoMatch ==
    (/\ Scraped
     /\ tool = "ChurchesTool"
     /\ \A p \in DOMAIN arg.containers : ~arg.containers[p].raises)
    => ret.events = ScrapeChurchCalendarAuto(QuietContainers(arg.containers)).events

(***************************************************************************)
(* The date parsers on any value                                           *)
(***************************************************************************)
\* a Python value handed to a parser: its type, its text when it is a str, and
\* its truthiness
NoneValue == [type |-> "NoneType", text |-> <<>>, truthy |-> FALSE]

StrValue(text) == [type |-> "str", text |-> text, truthy |-> text # <<>>]

IntValue(n) == [type |-> "int", text |-> <<>>, truthy |-> n # 0]

ListValue(n) == [type |-> "list", text |-> <<>>, truthy |-> n > 0]

\* how a call ends: with a value, or with an exception that reaches the caller;
\* `exception` names the exception raised inside, caught or not
Returns(value) == [raised |-> FALSE, exception |-> "", value |-> value]

Raises(exception) == [raised |-> TRUE, exception |-> exception, value |-> <<>>]

\* try: <outcome> except Exception: <handler>
Except(outcome, handler) ==
    IF outcome.raised THEN [handler EXCEPT !.exception = outcome.exception]
    ELSE outcome

\* the formats list of _parse_date_auto
formats ==
    << <<"%Y","-","%m","-","%d">>,
       <<"%m","/","%d","/","%Y">>,
       <<"%m","-","%d","-","%Y">>,
       <<"%d","/","%m","/","%Y">>,
       <<"%B"," ","%d",","," ","%Y">>,
       <<"%b"," ","%d",","," ","%Y">>,
       <<"%A",","," ","%B"," ","%d",","," ","%Y">>,
       <<"%A",","," ","%b"," ","%d",","," ","%Y">>,
       <<"%d"," ","%B"," ","%Y">>,
       <<"%d"," ","%b"," ","%Y">>,
       <<"%B"," ","%d">>,
       <<"%b"," ","%d">>,
       <<"%A",","," ","%B"," ","%d">>,
       <<"%A",","," ","%b"," ","%d">>,
       <<"%d"," ","%B">>,
       <<"%d"," ","%b">>,
       <<"%m","/","%d">>,
       <<"%m","-","%d">>,
       <<"%d","/","%m">>,
       <<"%d","-","%m">>,
       <<"%B"," ","%Y">>,
       <<"%b"," ","%Y">> >>

\* date_text.split('@')[0].strip() when '@' is in date_text
BeforeAt(s) ==
    LET at == {i \in 1..Len(s) : s[i] = "@"}
    IN  IF at = {} THEN s
        ELSE Strip(SubSeq(s, 1, (CHOOSE i \in at : \A j \in at : i <= j) - 1))

\* re.sub(r'deadline:\s*', '', s, flags=re.IGNORECASE) from position i on
RECURSIVE SubDeadline(_, _)
SubDeadline(s, i) ==
    IF i > Len(s) THEN <<>>
    ELSE IF MatchAtNoCase(s, i, DeadlinePrefix)
         THEN SubDeadline(s, SkipSpaces(s, i + Len(DeadlinePrefix)))
         ELSE <<s[i]>> \o SubDeadline(s, i + 1)

WithoutDeadline(s) ==
    IF Contains(Lower(s), Lower(DeadlinePrefix)) THEN Strip(SubDeadline(s, 1))
    ELSE s

\* the end of the run of \w characters that starts at i
RECURSIVE SkipWord(_, _)
SkipWord(s, i) ==
    IF i <= Len(s) /\ IsWordChar(s[i]) THEN SkipWord(s, i + 1) ELSE i

\* the start of the run of digits that ends at i
RECURSIVE DigitsStart(_, _)
DigitsStart(s, i) ==
    IF i >= 1 /\ IsDigit(s[i]) THEN DigitsStart(s, i - 1) ELSE i + 1

\* \w+\s+\d{4} read from d, the word ending before e and the year starting at
\* f: the position of its last character, 0 when it does not match
WordYearEnd(s, d, e, f) ==
    IF e > d /\ f > e /\ AllDigits(s, f, 4) THEN f + 3 ELSE 0

WordYearAt(s, d) ==
    WordYearEnd(s, d, SkipWord(s, d), SkipSpaces(s, SkipWord(s, d)))

\* (\d+)[-]\d+\s+(\w+\s+\d{4}) with its hyphen at b and the second number
\* ending before c: where group 2 starts, 0 when it does not match
MultiDayGroup(s, b, c, d) ==
    IF /\ IsDigit(s[b - 1]) /\ s[b] = "-"
       /\ c > b + 1 /\ d > c
       /\ WordYearAt(s, d) > 0
    THEN d ELSE 0

MultiDayAt(s, b) ==
    MultiDayGroup(s, b, SkipDigits(s, b + 1), SkipSpaces(s, SkipDigits(s, b + 1)))

\* f"{match.group(1)} {match.group(2)}" of the match whose hyphen is at b
FirstDayText(s, b, group2) ==
    SubSeq(s, DigitsStart(s, b - 1), b - 1) \o <<" ">>
        \o SubSeq(s, group2, WordYearAt(s, group2))

\* the range handling: the first day of a multi-day text, and otherwise
\* re.split with a pattern that does not compile (re.error)
FirstOfRange(s, hyphens) ==
    IF hyphens # {}
    THEN Returns(FirstDayText(s, CHOOSE b \in hyphens : \A j \in hyphens : b <= j,
                               MultiDayAt(s, CHOOSE b \in hyphens : \A j \in hyphens : b <= j)))
    ELSE Raises("re.error")

\* `if '' in date_text or '' in date_text or ' - ' in date_text`: the first two
\* separators of the source are empty strings
RangeStart(s) ==
    IF Contains(s, <<>>) \/ Contains(s, <<>>) \/ Contains(s, <<" ","-"," ">>)
    THEN FirstOfRange(s, {b \in 2..Len(s) : MultiDayAt(s, b) > 0})
    ELSE Returns(s)

\* re.sub(r'[^\w\s/,-]', '', date_text).strip()
KeepDateChars(s) ==
    Strip(Pick(s, {i \in 1..Len(s) :
                      IsWordChar(s[i]) \/ IsSpace(s[i]) \/ s[i] \in {"/", ",", "-"}}))

\* month_year_match: "September 2025" becomes "September 1, 2025"
MonthYearText(s) ==
    IF s # <<>> /\ WordYearAt(s, 1) = Len(s)
    THEN SubSeq(s, 1, SkipWord(s, 1) - 1) \o <<" ","1",","," ">>
             \o SubSeq(s, Len(s) - 3, Len(s))
    ELSE s

\* the clean-up and the strptime loop, on the outcome of the range handling
ParseRangeStart(outcome) ==
    IF outcome.raised THEN outcome
    ELSE Returns(FirstFormat(MonthYearText(KeepDateChars(outcome.value)), formats, 1))

\* the try body of _parse_date_auto: what it returns, or the exception it raises
ParseDateAutoBody(date_text) ==
    IF date_text.type \in {"NoneType", "int"} THEN Raises("TypeError")
    ELSE IF date_text.type = "list" THEN Raises("AttributeError")
    ELSE ParseRangeStart(RangeStart(WithoutDeadline(BeforeAt(date_text.text))))

ParseDateAutoUncaught(date_text) == ParseDateAutoBody(date_text)

\* ChurchesTool._parse_date_auto: <<date>>, or <<>> for None
ParseDateAuto(date_text) == Except(ParseDateAutoBody(date_text), Returns(<<>>))

\* the try body of SchoolsTool._parse_event_date (str.strip raises on a value
\* that is not a str)
ParseEventDateBody(date_str) ==
    IF date_str.type # "str" THEN Raises("AttributeError")
    ELSE Returns(ParseCleanedDate(Strip(date_str.text)))

\* SchoolsTool._parse_event_date on any value: <<date>>, or <<>> for None
ParseEventDateValue(date_str) ==
    IF ~date_str.truthy \/ date_str = StrValue(DateNotSpecified)
    THEN Returns(<<>>)
    ELSE Except(ParseEventDateBody(date_str), Returns(<<>>))

\* a datetime: a date with its hour and minute
WithTime(d, hour, minute) ==
    [year |-> d.year, month |-> d.month, day |-> d.day,
     hour |-> hour, minute |-> minute]

\* the fields of a timestamp once its date and its clock numbers are read
TimestampOf(day, hour, minute, second) ==
    IF day # <<>> /\ hour < 24 /\ minute < 60 /\ second < 60
    THEN <<WithTime(day[1], hour, minute)>> ELSE <<>>

\* datetime.fromisoformat(date_str.replace('Z', '+00:00')) on a text shaped
\* YYYY-MM-DDTHH:MM:SSZ: <<datetime>>, and <<>> when it raises ValueError
UtcTimestamp(s) ==
    IF Len(s) = 20 /\ s[20] = "Z" /\ FromIsoformat(SubSeq(s, 1, 19)) # <<>>
    THEN TimestampOf(FromIsoformat(SubSeq(s, 1, 19)),
                     NumberOf(SubSeq(s, 12, 13)), NumberOf(SubSeq(s, 15, 16)),
                     NumberOf(SubSeq(s, 18, 19)))
    ELSE <<>>

\* the day of the month of its first Sunday
FirstSunday(year, month) == 1 + ((6 - Weekday(MkDate(year, month, 1))) % 7)

\* month, day and hour as one number, to compare instants of one year
HourOfYear(month, day, hour) == (month * 100 + day) * 100 + hour

\* pytz 'US/Eastern': hours behind UTC, 4 from the second Sunday of March
\* 07:00 UTC to the first Sunday of November 06:00 UTC, 5 otherwise
HoursBehindUtc(dt) ==
    IF /\ HourOfYear(dt.month, dt.day, dt.hour)
              >= HourOfYear(3, FirstSunday(dt.year, 3) + 7, 7)
       /\ HourOfYear(dt.month, dt.day, dt.hour)
              < HourOfYear(11, FirstSunday(dt.year, 11), 6)
    THEN 4 ELSE 5

PreviousDay(d) ==
    IF d.day > 1 THEN MkDate(d.year, d.month, d.day - 1)
    ELSE IF d.month > 1
         THEN MkDate(d.year, d.month - 1, DaysInMonth(d.year, d.month - 1))
         ELSE MkDate(d.year - 1, 12, 31)

\* dt_utc.astimezone(eastern_tz)
AsEastern(dt, behind) ==
    IF dt.hour >= behind THEN WithTime(dt, dt.hour - behind, dt.minute)
    ELSE WithTime(PreviousDay(dt), dt.hour + 24 - behind, dt.minute)

\* the input formats of format_mappings; every output format is DisplayDate's
format_mappings ==
    << <<"%Y","-","%m","-","%d">>,
       <<"%m","/","%d","/","%Y">>,
       <<"%d","/","%m","/","%Y">>,
       <<"%B"," ","%d",","," ","%Y">>,
       <<"%b"," ","%d",","," ","%Y">>,
       <<"%Y","%m","%d">> >>

\* return of _format_date when no mapping reads the text
UnparsedText(cleaned) ==
    IF cleaned # <<>> /\ cleaned # DateNotSpecified THEN cleaned
    ELSE DateNotSpecified

\* the format_mappings loop from the k-th mapping on, then the unparsed return
RECURSIVE FormatMapped(_, _)
FormatMappedStep(s, k, got) ==
    IF got # <<>> THEN DisplayDate(got[1]) ELSE FormatMapped(s, k + 1)

FormatMapped(s, k) ==
    IF k > Len(format_mappings) THEN UnparsedText(Strip(s))
    ELSE FormatMappedStep(s, k, DateOfFields(Strptime(s, format_mappings[k]), 1900))

\* dateutil's parse(date_str) and the strftime after it: parse reads a
\* timestamp, and raises ParserError on the other texts holding 'T', '+' or 'Z'
\* that a run hands it
FormatParsed(dt) ==
    IF dt # <<>> THEN Returns(StrValue(Strftime(TimedDisplayFormat, dt[1])))
    ELSE Raises("ParserError")

\* the try body of _format_date (`'T' in date_str` raises on an int, strptime
\* raises TypeError on a list)
FormatDateBody(date_str) ==
    IF date_str.type # "str" THEN Raises("TypeError")
    ELSE IF \E c \in {"T", "+", "Z"} : Contains(date_str.text, <<c>>)
         THEN FormatParsed(UtcTimestamp(date_str.text))
         ELSE Returns(StrValue(FormatMapped(date_str.text, 1)))

\* SchoolsTool._format_date: the display text, or date_str itself when the
\* body raised
FormatDate(date_str) ==
    IF ~date_str.truthy THEN Returns(StrValue(DateNotSpecified))
    ELSE Except(FormatDateBody(date_str), Returns(date_str))

\* FormatTimestamp without the all-day branch: every timestamp is converted
FormatTimestampConverts(dt_utc) ==
    IF dt_utc = <<>> THEN Raises("ValueError")
    ELSE Returns(StrValue(Strftime(TimedDisplayFormat,
              AsEastern(dt_utc[1], HoursBehindUtc(dt_utc[1])))))

\* the branch of a text holding 'T' and 'Z': an all-day date is rendered as it
\* is, a timed one in Eastern time
FormatTimestamp(dt_utc) ==
    IF dt_utc = <<>> THEN Raises("ValueError")
    ELSE IF dt_utc[1].hour = 0 /\ dt_utc[1].minute = 0
         THEN Returns(StrValue(DisplayDate(dt_utc[1])))
         ELSE Returns(StrValue(Strftime(TimedDisplayFormat,
                   AsEastern(dt_utc[1], HoursBehindUtc(dt_utc[1])))))

\* the try body of _format_date_with_timezone
FormatDateWithTimezoneBody(date_str) ==
    IF date_str.type = "int" THEN Raises("TypeError")
    ELSE IF /\ date_str.type = "str"
            /\ Contains(date_str.text, <<"T">>)
            /\ Contains(date_str.text, <<"Z">>)
         THEN FormatTimestamp(UtcTimestamp(date_str.text))
         ELSE FormatDate(date_str)

\* SchoolsTool._format_date_with_timezone
FormatDateWithTimezone(date_str) ==
    IF ~date_str.truthy THEN Returns(StrValue(DateNotSpecified))
    ELSE Except(FormatDateWithTimezoneBody(date_str), FormatDate(date_str))

(***************************************************************************)
(* Runs of the parsers                                                     *)
(***************************************************************************)
Oct3to5 == <<"3","-","5"," ","O","c","t","o","b","e","r"," ","2","0","2","5">>

Nov9to10At7 == <<"9","-","1","0"," ","N","o","v"," ","2","0","2","5"," ","@"," ","7","p","m">>

DeadlineMay == <<"D","e","a","d","l","i","n","e",":"," ","3","-","5"," ","M","a","y"," ","2","0","2","5">>

June31 == <<"3","0","-","3","1"," ","J","u","n","e"," ","2","0","2","5">>

Sep5to7 == <<"S","e","p"," ","5"," ","-"," ","S","e","p"," ","7">>

\* a date, a separator and no second date
Sep5toTba == <<"S","e","p"," ","5"," ","-"," ","T","B","D">>

Sep5 == <<"S","e","p"," ","5">>

Sep5Year == <<"S","e","p"," ","5",","," ","2","0","2","5">>

SlashSep5 == <<"9","/","5","/","2","0","2","5">>

Blank == <<" "," ">>

\* a date inside other words
PictureDaySep5 == <<"P","i","c","t","u","r","e"," ","D","a","y"," ","S","e","p"," ","5">>

DueBy95 == <<"F","o","r","m","s"," ","d","u","e"," ","9","/","5">>

\* timestamps as Google Calendar feeds give them, well formed or not
Timestamp(d, hour, minute) ==
    IsoFormat(d) \o <<"T">> \o Pad2(hour) \o <<":">> \o Pad2(minute)
        \o <<":","0","0","Z">>

Timestamps ==
    { Timestamp(d, hour, minute) :
        d \in { MkDate(2025, 9, 2), MkDate(2025, 3, 9), MkDate(2025, 11, 2),
                MkDate(2025, 1, 1), MkDate(2025, 13, 2) },
        hour \in {0, 3, 6, 11, 25}, minute \in {0, 30} }

\* a timestamp whose only time component is its seconds
HalfMinutePastMidnight ==
    IsoFormat(MkDate(2025, 9, 2)) \o <<"T","0","0",":","0","0",":","3","0","Z">>

ParserTexts ==
    { <<>>, Blank, DateNotSpecified, ToBeAnnounced, Sep5, Sep5Year, SlashSep5,
      Sep5to7, Oct3to5, Nov9to10At7, DeadlineMay, June31,
      IsoFormat(MkDate(2025, 9, 5)), DisplayDate(MkDate(2025, 9, 5)),
      HalfMinutePastMidnight, PictureDaySep5, DueBy95,
      Sep5toTba }
    \cup Timestamps

ParserValues ==
    { NoneValue, IntValue(0), IntValue(5), ListValue(0), ListValue(1) }
    \cup { StrValue(text) : text \in ParserTexts }

InitParsers ==
    /\ tool \in {"ChurchesTool", "SchoolsTool"}
    /\ arg \in ParserValues
    /\ call = "none"
    /\ ret = <<>>
    /\ applied = 0

ChurchesParseDate ==
    /\ tool = "ChurchesTool"
    /\ call = "none"
    /\ call' = "_parse_date_auto"
    /\ ret' = ParseDateAuto(arg)
    /\ applied' = applied + 1
    /\ UNCHANGED <<tool, arg>>

SchoolsParseDate ==
    /\ tool = "SchoolsTool"
    /\ call = "none"
    /\ call' = "_parse_event_date"
    /\ ret' = ParseEventDateValue(arg)
    /\ applied' = applied + 1
    /\ UNCHANGED <<tool, arg>>

SchoolsFormatDate ==
    /\ tool = "SchoolsTool"
    /\ call = "none"
    /\ call' = "_format_date_with_timezone"
    /\ ret' = FormatDateWithTimezone(arg)
    /\ applied' = applied + 1
    /\ UNCHANGED <<tool, arg>>

NextParsers == ChurchesParseDate \/ SchoolsParseDate \/ SchoolsFormatDate

SpecParsers == InitParsers /\ [][NextParsers]_vars

\* a parser has been called
Parsed == call \in {"_parse_date_auto", "_parse_event_date", "_format_date_with_timezone"}

\* a calendar date, as a parser returns it
IsCalendarDate(value) ==
    /\ Len(value) = 1
    /\ IsoDateOf(value[1].year, value[1].month, value[1].day) # <<>>

\* a text _format_date_with_timezone gives a date it read
IsDisplayText(text) ==
    \/ Strptime(text, <<"%a",","," ","%b"," ","%d",","," ","%Y">>) # <<>>
    \/ Strptime(text, TimedDisplayFormat) # <<>>

\* C10: the date parsers are total: whatever value they are handed (None, a
\* number, a list, an empty text, any text, a text with a range separator),
\* _parse_date_auto and _parse_event_date return a calendar date or None and
\* _format_date_with_timezone returns a display text, 'Date not specified' or
\* the value it was handed; no exception reaches the caller.
C10_ParsersTotal ==
    Parsed =>
        /\ ~ret.raised
        /\ call # "_format_date_with_timezone"
               => ret.value = <<>> \/ IsCalendarDate(ret.value)
        /\ call = "_format_date_with_timezone"
               => \/ ret.value = arg
                  \/ /\ ret.value.type = "str"
                     /\ \/ ret.value.text = DateNotSpecified
                        \/ ret.value.text = Strip(arg.text)
                        \/ IsDisplayText(ret.value.text)

\* an exception raised inside a parser and caught there: re.error from the
\* range handling of _parse_date_auto on a text with ' - '
C10_Witness ==
    /\ call = "_parse_date_auto"
    /\ arg = StrValue(Sep5to7)
    /\ ret.exception = "re.error"
    /\ ~ret.raised
    /\ ret.value = <<>>

(***************************************************************************)
(* The source adapters on a location: ChurchesTool.execute,                *)
(* SchoolsTool.execute and MacaroniKIDEventsTool.execute.                  *)
(*                                                                         *)
(* A run is handed the location and, for each configured source in the     *)
(* order of the configuration, how its fetch ends: "timeout" (the request  *)
(* raises), "status" (an HTTP error status), "raises" (the extraction      *)
(* raises), "empty" (a page without events) or "events".  The result       *)
(* records every request issued and every pause, in order, as `trace`.     *)
(***************************************************************************)
SnellvilleCity == <<"S","n","e","l","l","v","i","l","l","e">>

SnellvilleGA == <<"S","n","e","l","l","v","i","l","l","e",","," ","G","A">>

\* ChurchesTool.location_config: the church URLs of each location
ChurchesLocationConfig ==
    [location \in {SnellvilleCity} |->
        << "https://12stone.com/events/",
           "https://gracesnellville.churchcenter.com/registrations",
           "https://www.snellvillecc.org/happenings",
           "https://www.churchonmain.net/events" >>]

\* SchoolsTool.location_config: the URLs of each school type, in the order
\* elementary, middle, high
SchoolsLocationConfig ==
    [location \in {SnellvilleGA} |->
        << << "https://brookwoodes.gcpsk12.org/calendar",
              "https://shilohes.gcpsk12.org/calendar-c3" >>,
           << "https://snellvillems.gcpsk12.org/calendar",
              "https://shilohms.gcpsk12.org/calendar" >>,
           << "https://southgwinnetths.gcpsk12.org/calendar",
              "https://shilohhs.gcpsk12.org/calendar" >> >>]

\* MacaroniKIDEventsTool.location_config ("" stands for None)
MacaroniLocations ==
    << [location |-> <<"C","o","v","i","n","g","t","o","n",","," ","G","A">>,
        url |-> "https://conyers.macaronikid.com/events/calendar", townOwnerId |-> "58252a7a6f1aaf645c94f0da"],
       [location |-> <<"D","o","u","g","l","a","s","v","i","l","l","e",","," ","G","A">>,
        url |-> "N/A", townOwnerId |-> ""],
       [location |-> <<"D","u","l","u","t","h",","," ","G","A">>,
        url |-> "https://duluth.macaronikid.com/events/calendar", townOwnerId |-> "58252a7d6f1aaf645c94f28f"],
       [location |-> <<"G","a","i","n","e","s","v","i","l","l","e",","," ","G","A">>,
        url |-> "https://gainesvillega.macaronikid.com/events/calendar", townOwnerId |-> "58252a7e6f1aaf645c94f2e1"],
       [location |-> <<"H","i","r","a","m",","," ","G","A">>,
        url |-> "https://dallasga.macaronikid.com/events/calendar", townOwnerId |-> "58252a7b6f1aaf645c94f137"],
       [location |-> <<"F","a","y","e","t","t","e","v","i","l","l","e",","," ","G","A">>,
        url |-> "https://peachtreecity.macaronikid.com/events/calendar", townOwnerId |-> "58252a7d6f1aaf645c94f26c"],
       [location |-> <<"S","n","e","l","l","v","i","l","l","e",","," ","G","A">>,
        url |-> "https://snellville.macaronikid.com/events/calendar", townOwnerId |-> "58252a7b6f1aaf645c94f16f"],
       [location |-> <<"S","t","o","c","k","b","r","i","d","g","e",","," ","G","A">>,
        url |-> "https://mcdonough.macaronikid.com/events/calendar", townOwnerId |-> "58252a7f6f1aaf645c94f3e1"],
       [location |-> <<"W","a","r","n","e","r"," ","R","o","b","i","n","s",","," ","G","A">>,
        url |-> "N/A", townOwnerId |-> ""],
       [location |-> <<"F","i","n","d","l","a","y",","," ","O","H">>,
        url |-> "N/A", townOwnerId |-> ""] >>

MacaroniLocationConfig ==
    [location \in {MacaroniLocations[k].location : k \in DOMAIN MacaroniLocations} |->
        CHOOSE info \in Range(MacaroniLocations) : info.location = location]

\* location.split(',')[0].strip()
CityOf(location) ==
    LET commas == {i \in 1..Len(location) : location[i] = ","}
    IN  IF commas = {} THEN Strip(location)
        ELSE Strip(SubSeq(location, 1,
                          (CHOOSE i \in commas : \A j \in commas : i <= j) - 1))

\* location.replace('+', ' ').strip()
PlusToSpace(location) ==
    Strip([i \in 1..Len(location) |-> IF location[i] = "+" THEN " " ELSE location[i]])

\* the first variation that is a key of the configuration, the city otherwise
FirstVariation(location, city) ==
    IF location \in DOMAIN ChurchesLocationConfig THEN location
    ELSE IF city \in DOMAIN ChurchesLocationConfig THEN city
    ELSE IF city \o <<",", " ", "G", "A">> \in DOMAIN ChurchesLocationConfig
         THEN city \o <<",", " ", "G", "A">>
         ELSE city

NormalizeCleaned(location) == FirstVariation(location, CityOf(location))

\* ChurchesTool._normalize_location
NormalizeLocation(location) == NormalizeCleaned(PlusToSpace(location))

\* how a scraper's try body ends on a source: requests raise on a timeout,
\* raise_for_status raises on an error status, the extraction may raise
ScrapeBody(outcome, events, raises_for_status) ==
    CASE outcome = "timeout" -> Raises("Timeout")
      [] outcome = "status"  -> IF raises_for_status THEN Raises("HTTPError")
                                ELSE Returns(<<>>)
      [] outcome = "raises"  -> Raises("Exception")
      [] outcome = "empty"   -> Returns(<<>>)
      [] OTHER               -> Returns(events)

\* SchoolsTool._scrape_school_calendar: the events of the page, [] when the
\* status is not 200 or anything raises
ScrapeSchoolCalendar(outcome, events) ==
    Except(ScrapeBody(outcome, events, FALSE), Returns(<<>>))

\* ChurchesTool._scrape_church_calendar_custom and the scraper it calls
ScrapeChurchCalendarCustom(outcome, events) ==
    Except(ScrapeBody(outcome, events, TRUE), Returns(<<>>))

\* GatherStep that gives up the events gathered when a source has failed
GatherStepAbandons(acc, url, scraped, last) ==
    IF scraped.exception # "" THEN [events |-> <<>>, trace |-> Append(acc.trace, url)]
    ELSE [events |-> acc.events \o scraped.value,
          trace  |-> acc.trace \o <<url>> \o (IF last THEN <<>> ELSE <<"sleep">>)]

\* one turn of the loop over the sources of a list: the try around the scrape,
\* all_events.extend(events), the pause unless the source is the last of its
\* list, and `except Exception: continue`
GatherStep(acc, url, scraped, last) ==
    IF scraped.raised THEN [acc EXCEPT !.trace = Append(@, url)]
    ELSE [events |-> acc.events \o scraped.value,
          trace  |-> acc.trace \o <<url>> \o (IF last THEN <<>> ELSE <<"sleep">>)]

\* the events of the k-th configured source when its page has events
ChurchSourceEvents ==
    << <<DatedChurchEvent(Gala, IsoSep10)>>,
       <<DatedChurchEvent(FallOpenHouse, IsoSep10)>>,
       <<DatedChurchEvent(FallOpenHouseParty, <<>>)>>,
       <<DatedChurchEvent(DateTitle, IsoDec25)>> >>

SchoolSourceEvents ==
    << <<SchoolEvent(LunchVisitors, DisplayDate(MkDate(2025, 9, 2)), Brookwood)>>,
       <<SchoolEvent(LunchVisitors, DisplayDate(MkDate(2025, 9, 3)), Shiloh)>>,
       <<SchoolEvent(LunchVisitors, DisplayDate(MkDate(2025, 9, 3)), Brookwood)>>,
       <<SchoolEvent(LunchVisitors, ToBeAnnounced, Brookwood)>>,
       <<SchoolEvent(LunchVisitorsBang, DisplayDate(MkDate(2025, 9, 4)), Brookwood)>>,
       <<SchoolEvent(PtaMeeting, DateNotSpecified, Brookwood)>> >>

\* `for i, church_config in enumerate(churches)` from the k-th church on
RECURSIVE GatherChurches(_, _, _, _)
GatherChurches(churches, sources, k, acc) ==
    IF k > Len(churches) THEN acc
    ELSE GatherChurches(churches, sources, k + 1,
             GatherStep(acc, churches[k],
                        ScrapeChurchCalendarCustom(sources[k], ChurchSourceEvents[k]),
                        k = Len(churches)))

\* a result of execute ("absent": the result has no 'success' key)
Result(success, events, message, trace) ==
    [success |-> success, events |-> events, message |-> message, trace |-> trace]

ChurchesResult(gathered, start_date, end_date) ==
    Result("true", ChurchesReturn(gathered.events, start_date, end_date), "",
           gathered.trace)

\* ChurchesTool.execute on a location, its sources ending as `sources` says
ChurchesExecuteAt(normalized_location, sources, start_date, end_date) ==
    IF normalized_location \notin DOMAIN ChurchesLocationConfig
    THEN Result("true", <<>>, "No church URLs configured for {location}", <<>>)
    ELSE ChurchesResult(
             GatherChurches(ChurchesLocationConfig[normalized_location], sources, 1,
                            [events |-> <<>>, trace |-> <<>>]),
             start_date, end_date)

ChurchesExecuteOn(location, sources) ==
    ChurchesExecuteAt(NormalizeLocation(location), sources, <<>>, <<>>)

\* `for i, url in enumerate(urls)` of one school type, from the i-th URL on;
\* `before` counts the sources of the school types already processed
RECURSIVE GatherSchoolType(_, _, _, _, _)
GatherSchoolType(urls, sources, before, i, acc) ==
    IF i > Len(urls) THEN acc
    ELSE GatherSchoolType(urls, sources, before, i + 1,
             GatherStep(acc, urls[i],
                        ScrapeSchoolCalendar(sources[before + i],
                                             SchoolSourceEvents[before + i]),
                        i = Len(urls)))

\* `for school_type, urls in school_config.items()` from the t-th type on
RECURSIVE GatherSchools(_, _, _, _, _)
GatherSchools(school_config, sources, before, t, acc) ==
    IF t > Len(school_config) THEN acc
    ELSE GatherSchools(school_config, sources, before + Len(school_config[t]), t + 1,
             GatherSchoolType(school_config[t], sources, before, 1, acc))

SchoolsResult(gathered) ==
    Result("true", SchoolsReturn(gathered.events),
           "Found {n} school events from {total_urls} sources", gathered.trace)

\* SchoolsTool.execute on a location
SchoolsExecuteOn(location, sources) ==
    IF location \notin DOMAIN SchoolsLocationConfig
    THEN Result("true", <<>>, "No school URLs configured for {location}", <<>>)
    ELSE SchoolsResult(GatherSchools(SchoolsLocationConfig[location], sources, 0, 1,
                                     [events |-> <<>>, trace |-> <<>>]))

\* datetime.now(timezone.utc) of the run
Now == WithTime(Today, 12, 0)

\* an instant in minutes, to compare datetimes
MinuteOf(dt) == (ToOrdinal(dt) * 24 + dt.hour) * 60 + dt.minute

\* an entry of the API response, and an event of the result
ApiEvent(id, title, startDateTime) ==
    [id |-> id, title |-> title, startDateTime |-> startDateTime]

\* the window test of _process_api_event on the start it has read
InTwoWeeks(start_date) ==
    /\ start_date # <<>>
    /\ MinuteOf(start_date[1]) >= MinuteOf(Now)
    /\ MinuteOf(start_date[1]) <= MinuteOf(Now) + 14 * 24 * 60

\* MacaroniKIDEventsTool._process_api_event: <<event>>, or <<>> for None
ProcessApiEvent(event_data) ==
    IF /\ event_data.id # "" /\ event_data.title # ""
       /\ Truthy(event_data.startDateTime)
       /\ InTwoWeeks(UtcTimestamp(event_data.startDateTime))
    THEN <<event_data>> ELSE <<>>

RECURSIVE ProcessedEvents(_, _)
ProcessedEvents(events_data, k) ==
    IF k > Len(events_data) THEN <<>>
    ELSE ProcessApiEvent(events_data[k]) \o ProcessedEvents(events_data, k + 1)

\* MacaroniKIDEventsTool._get_mock_events
MockEvents ==
    <<ApiEvent("mock-123", "Mock MacaroniKID Event in {location}",
               Timestamp(NextDay(Today), 10, 0))>>

\* the entries the API answers with when it has events
ApiEvents ==
    << ApiEvent("e1", "Story Time", Timestamp(MkDate(2025, 9, 5), 10, 0)),
       ApiEvent("e2", "Winter Fair", Timestamp(MkDate(2025, 12, 6), 10, 0)),
       ApiEvent("e3", "", Timestamp(MkDate(2025, 9, 6), 10, 0)) >>

\* the request to the API and what follows it: a status other than 200, a
\* body that is not JSON and any exception give the mock events
SearchApi(outcome) ==
    Except(IF outcome = "timeout" THEN Raises("Timeout")
           ELSE IF outcome \in {"status", "raises"} THEN Returns(MockEvents)
           ELSE IF outcome = "empty" THEN Returns(<<>>)
           ELSE Returns(ProcessedEvents(ApiEvents, 1)),
           Returns(MockEvents))

\* MacaroniKIDEventsTool._search_events: the events and the requests issued
SearchEvents(location, sources) ==
    IF location \notin DOMAIN MacaroniLocationConfig
    THEN [events |-> MockEvents, trace |-> <<>>]
    ELSE IF \/ MacaroniLocationConfig[location].url = "N/A"
            \/ MacaroniLocationConfig[location].townOwnerId = ""
         THEN [events |-> <<>>, trace |-> <<>>]
         ELSE [events |-> SearchApi(sources[1]).value,
               trace  |-> <<"https://api.macaronikid.com/api/v1/event/v2">>]

MacaroniResult(found) == Result("absent", found.events, "", found.trace)

\* MacaroniKIDEventsTool.execute
MacaroniExecuteOn(location, sources) == MacaroniResult(SearchEvents(location, sources))

(***************************************************************************)
(* The adapters as runs: a location and the ends of its fetches in, the    *)
(* result of execute out                                                   *)
(***************************************************************************)
Locations ==
    { SnellvilleCity, SnellvilleGA,
      <<"S","n","e","l","l","v","i","l","l","e","+">>,
      <<"S","n","e","l","l","v","i","l","l","e",",","G","A">>,
      <<"A","t","l","a","n","t","a",","," ","G","A">>,
      <<"D","o","u","g","l","a","s","v","i","l","l","e",","," ","G","A">>,
      <<"D","u","l","u","t","h",","," ","G","A">> }

SourceOutcomes == {"timeout", "status", "raises", "empty", "events"}

\* the URLs of a school configuration, in the order they are fetched
RECURSIVE SchoolUrls(_, _)
SchoolUrls(school_config, t) ==
    IF t > Len(school_config) THEN <<>>
    ELSE school_config[t] \o SchoolUrls(school_config, t + 1)

\* the sources configured for a location: the URLs execute is to fetch
ConfiguredSources(adapter, location) ==
    CASE adapter = "ChurchesTool" ->
           IF NormalizeLocation(location) \in DOMAIN ChurchesLocationConfig
           THEN ChurchesLocationConfig[NormalizeLocation(location)] ELSE <<>>
      [] adapter = "SchoolsTool" ->
           IF location \in DOMAIN SchoolsLocationConfig
           THEN SchoolUrls(SchoolsLocationConfig[location], 1) ELSE <<>>
      [] OTHER ->
           IF /\ location \in DOMAIN MacaroniLocationConfig
              /\ MacaroniLocationConfig[location].townOwnerId # ""
           THEN <<"https://api.macaronikid.com/api/v1/event/v2">> ELSE <<>>

InitExecute ==
    /\ tool \in {"ChurchesTool", "SchoolsTool", "MacaroniKIDEventsTool"}
    /\ \E location \in Locations :
          arg \in [location : {location},
                   sources  : [1..Len(ConfiguredSources(tool, location)) -> SourceOutcomes]]
    /\ call = "none"
    /\ ret = <<>>
    /\ applied = 0

ChurchesRun ==
    /\ tool = "ChurchesTool"
    /\ call = "none"
    /\ call' = "execute"
    /\ ret' = ChurchesExecuteOn(arg.location, arg.sources)
    /\ applied' = applied + 1
    /\ UNCHANGED <<tool, arg>>

SchoolsRun ==
    /\ tool = "SchoolsTool"
    /\ call = "none"
    /\ call' = "execute"
    /\ ret' = SchoolsExecuteOn(arg.location, arg.sources)
    /\ applied' = applied + 1
    /\ UNCHANGED <<tool, arg>>

MacaroniRun ==
    /\ tool = "MacaroniKIDEventsTool"
    /\ call = "none"
    /\ call' = "execute"
    /\ ret' = MacaroniExecuteOn(arg.location, arg.sources)
    /\ applied' = applied + 1
    /\ UNCHANGED <<tool, arg>>

NextExecute == ChurchesRun \/ SchoolsRun \/ MacaroniRun

SpecExecute == InitExecute /\ [][NextExecute]_vars

\* the location has an entry in the configuration of the adapter
HasEntry ==
    CASE tool = "ChurchesTool" -> NormalizeLocation(arg.location) \in DOMAIN ChurchesLocationConfig
      [] tool = "SchoolsTool"  -> arg.location \in DOMAIN SchoolsLocationConfig
      [] OTHER                 -> arg.location \in DOMAIN MacaroniLocationConfig

\* the requests of a trace, without its pauses
Requests(trace) == Pick(trace, {i \in 1..Len(trace) : trace[i] # "sleep"})

\* C11: for a location without an entry in its configuration an adapter returns
\* an empty event list with an explanatory message and issues no request, and no
\* adapter answers success=false because it found no events.
C11_UnconfiguredIsEmptyWithMessage ==
    Executed =>
        /\ ~HasEntry => /\ ret.events = <<>>
                        /\ ret.message # ""
                        /\ ret.trace = <<>>
        /\ ret.events = <<>> => ret.success # "false"

\* the same for the two adapters that do so
UnconfiguredSurfaced ==
    (Executed /\ tool # "MacaroniKIDEventsTool") =>
        /\ ~HasEntry => /\ ret.events = <<>>
                        /\ ret.message # ""
                        /\ ret.trace = <<>>
        /\ ret.success = "true"

\* the events of the sources that gave events, in the order of the sources
RECURSIVE Succeeded(_, _, _)
Succeeded(sources, source_events, k) ==
    IF k > Len(sources) THEN <<>>
    ELSE (IF sources[k] = "events" THEN source_events[k] ELSE <<>>)
             \o Succeeded(sources, source_events, k + 1)

\* C12: whatever way the fetch or the extraction of a configured source fails
\* (timeout, error status, exception), ChurchesTool.execute and
\* SchoolsTool.execute still request every configured source, in order, and
\* return what their pipeline makes of the events of the sources that succeeded.
C12_FailureIsolated ==
    (Executed /\ HasEntry /\ tool # "MacaroniKIDEventsTool") =>
        /\ ret.success = "true"
        /\ Requests(ret.trace) = ConfiguredSources(tool, arg.location)
        /\ ret.events =
              IF tool = "ChurchesTool"
              THEN Succeeded(arg.sources, ChurchSourceEvents, 1)
              ELSE SchoolsReturn(Succeeded(arg.sources, SchoolSourceEvents, 1))

\* a school run in which the first three sources fail in the three ways and a
\* later source gives an event that is returned
C12_Witness ==
    /\ Executed
    /\ tool = "SchoolsTool"
    /\ HasEntry
    /\ arg.sources[1] = "timeout"
    /\ arg.sources[2] = "status"
    /\ arg.sources[3] = "raises"
    /\ arg.sources[6] = "events"
    /\ \E i \in 1..Len(ret.events) : ret.events[i] = SchoolSourceEvents[6][1]

(***************************************************************************)
(* The church cascade on a page of list items: items with a heading and a  *)
(* date among other list items, no pattern but "li" finding a title        *)
(***************************************************************************)
\* the most list items without a heading before the first item
MaxBefore == 6

\* a list item with its title in an h3 heading
ListItem(title) == [title |-> <<"", "", title>>, text |-> title]

\* a list item without a heading, as of a navigation menu
Navigation == [title |-> <<"", "", "", "", "", "">>, text |-> "Home"]

ItemTitles == {"Fall Festival", "Picture Day", "Book Fair"}

\* two or more items with different titles
ItemLists ==
    {items \in SeqsUpTo(ItemTitles, Cardinality(ItemTitles)) :
        /\ Len(items) >= 2
        /\ \A i \in 1..Len(items) : \A j \in 1..(i - 1) : items[i] # items[j]}

\* what select('li') gives: the items after `before` other list items and
\* before `after` more of them
ListItems(before, items, after) ==
    [j \in 1..before |-> Navigation]
    \o [j \in 1..Len(items) |-> ListItem(items[j])]
    \o [j \in 1..after |-> Navigation]

InitListItems ==
    /\ tool = "ChurchesTool"
    /\ \E before \in 0..MaxBefore : \E after \in 0..1 : \E items \in ItemLists :
       \E others \in [1..Len(common_selectors) -> {Matches(<<>>), Matches(<<Navigation>>)}] :
          arg = [containers |-> [others EXCEPT ![2] = Matches(ListItems(before, items, after))],
                 items |-> items, before |-> before]
    /\ call = "none"
    /\ ret = <<>>
    /\ applied = 0

NextListItems == ScrapeChurchCalendar

SpecListItems == InitListItems /\ [][NextListItems]_vars

\* C16: on a page without site-specific selectors whose list items include two
\* or more that hold a heading and a date, the cascade returns a record with the
\* title of each of those items, wherever they sit among the other list items.
C16_ListItemTitlesExtracted ==
    Scraped =>
        \A j \in 1..Len(arg.items) :
            \E i \in 1..Len(ret.events) : ret.events[i] = arg.items[j]

\* the titles are returned, in order, when an item is among the first SampleSize
\* list items
TitlesExtractedWithinSample ==
    (Scraped /\ arg.before < SampleSize) => ret.events = arg.items

(***************************************************************************)
(* The date parsers on two renderings of one calendar date                 *)
(***************************************************************************)
CalendarDates ==
    { MkDate(2025, 9, 5), MkDate(2025, 9, 25), MkDate(2025, 5, 9),
      MkDate(2025, 12, 12), MkDate(2024, 2, 29), MkDate(2026, 1, 31) }

\* the templates of a list that render a day, a month and a year and no time
YearTemplates(templates) ==
    {fmt \in Range(templates) :
        /\ "%Y" \in Range(fmt)
        /\ "%d" \in Range(fmt)
        /\ Range(fmt) \cap {"%H", "%I", "%M", "%S", "%p"} = {}}

InitRoundTrip ==
    /\ \/ /\ tool = "ChurchesTool"
          /\ arg \in [date : CalendarDates, first : YearTemplates(formats),
                      second : YearTemplates(formats)]
       \/ /\ tool = "SchoolsTool"
          /\ arg \in [date : CalendarDates, first : YearTemplates(date_formats),
                      second : YearTemplates(date_formats)]
    /\ call = "none"
    /\ ret = <<>>
    /\ applied = 0

\* _parse_date_auto on the two renderings of the date
ChurchesParseRenderings ==
    /\ tool = "ChurchesTool"
    /\ call = "none"
    /\ call' = "_parse_date_auto"
    /\ ret' = [first  |-> ParseDateAuto(StrValue(Strftime(arg.first, arg.date))).value,
               second |-> ParseDateAuto(StrValue(Strftime(arg.second, arg.date))).value]
    /\ applied' = applied + 1
    /\ UNCHANGED <<tool, arg>>

\* _parse_event_date on the two renderings of the date
SchoolsParseRenderings ==
    /\ tool = "SchoolsTool"
    /\ call = "none"
    /\ call' = "_parse_event_date"
    /\ ret' = [first  |-> ParseEventDateValue(StrValue(Strftime(arg.first, arg.date))).value,
               second |-> ParseEventDateValue(StrValue(Strftime(arg.second, arg.date))).value]
    /\ applied' = applied + 1
    /\ UNCHANGED <<tool, arg>>

NextRoundTrip == ChurchesParseRenderings \/ SchoolsParseRenderings

SpecRoundTrip == InitRoundTrip /\ [][NextRoundTrip]_vars

\* C17: parse round-trips calendar dates across templates: the renderings of a
\* calendar date by any two supported templates with an explicit year both parse
\* to that calendar date.
C17_ParseRoundTrips ==
    Parsed => ret.first = <<arg.date>> /\ ret.second = <<arg.date>>

DayFirstSlash == <<"%d","/","%m","/","%Y">>

\* _parse_event_date does so for its templates other than day/month/year
SchoolsRoundTripButDayFirst ==
    (Parsed /\ tool = "SchoolsTool") =>
        /\ arg.first # DayFirstSlash => ret.first = <<arg.date>>
        /\ arg.second # DayFirstSlash => ret.second = <<arg.date>>

\* and reads a day/month/year rendering month first whenever the day can be a
\* month
SchoolsReadMonthFirst ==
    (Parsed /\ tool = "SchoolsTool" /\ arg.first = DayFirstSlash) =>
        ret.first = IF arg.date.day > 12 THEN <<arg.date>>
                    ELSE <<MkDate(arg.date.year, arg.date.day, arg.date.month)>>

(***************************************************************************)
(* ContactScraperTool._scrape_real_events and _extract_email_from_website  *)
(* of backend/tools/contact_scraper.py.  A web site is its host and its    *)
(* path; a request is recorded with its kind, its host and its target.     *)
(***************************************************************************)
\* list(unique_results.values())[:10]
ResultLimit == 10

Website(host, path) == [host |-> host, path |-> path]

\* website is None
NoWebsite == Website("", "")

Request(kind, host, target) == [kind |-> kind, host |-> host, target |-> target]

\* what the Places details request knows of the places of the runs ("" and <<>>
\* stand for a missing field)
PlaceDetails ==
    [place_id \in {"camp", "signup", "market"} |->
        CASE place_id = "camp" ->
               [name |-> "Camp Sunshine", overview |-> <<"D","a","y"," ","c","a","m","p">>,
                types |-> <<<<"c","a","m","p","g","r","o","u","n","d">>>>,
                formatted_address |-> "200 Camp Sunshine Rd",
                website |-> Website("a.example", "/x"),
                formatted_phone_number |-> "770-555-0123"]
          [] place_id = "signup" ->
               [name |-> "Camp Sunshine Sign-up", overview |-> <<>>,
                types |-> <<<<"s","u","m","m","e","r","_","c","a","m","p">>, <<"p","o","i","n","t","_","o","f","_","i","n","t","e","r","e","s","t">>>>,
                formatted_address |-> "200 Camp Sunshine Rd",
                website |-> Website("a.example", "/y"),
                formatted_phone_number |-> ""]
          [] place_id = "market" ->
               [name |-> "Farmers Market", overview |-> <<"P","r","o","d","u","c","e">>,
                types |-> <<<<"s","t","o","r","e">>>>,
                formatted_address |-> "100 Main St",
                website |-> NoWebsite,
                formatted_phone_number |-> "770-555-0126"]]

\* the upper-case letter of a lower-case letter
UpperChar(c) ==
    IF \E k \in 1..26 : LowerCase[k] = c
    THEN UpperCase[CHOOSE k \in 1..26 : LowerCase[k] = c] ELSE c

\* str.replace("_", " ")
ReplaceUnderscore(s) == [i \in 1..Len(s) |-> IF s[i] = "_" THEN " " ELSE s[i]]

\* str.title(): a letter after a character that is no letter in upper case,
\* every other letter in lower case
TitleCase(s) ==
    [i \in 1..Len(s) |->
        IF i = 1 \/ ~IsLetter(s[i - 1]) THEN UpperChar(s[i]) ELSE LowerChar(s[i])]

\* overview or details.get("types", ...)[0].replace("_", " ").title()
DescriptionOf(details) ==
    IF details.overview # <<>> THEN details.overview
    ELSE TitleCase(ReplaceUnderscore(details.types[1]))

\* the addresses a page shows, in the order re.findall gives them
PageEmails == <<<<"i","n","f","o","@","e","x","a","m","p","l","e",".","c","o","m">>, <<"h","e","l","l","o","@","c","a","m","p",".","o","r","g">>, <<"j","o","b","s","@","c","a","m","p",".","o","r","g">>>>

ExcludedEmailParts == {<<"e","x","a","m","p","l","e",".","c","o","m">>, <<"t","e","s","t",".","c","o","m">>, <<"d","o","m","a","i","n",".","c","o","m">>}

\* filtered_emails
FilteredEmails(emails) ==
    Pick(emails, {i \in 1..Len(emails) :
                     ~\E exclude \in ExcludedEmailParts : Contains(Lower(emails[i]), exclude)})

FirstOrNone(filtered_emails) ==
    IF filtered_emails = <<>> THEN <<>> ELSE filtered_emails[1]

\* the try body of _extract_email_from_website: page.outcome is how the request
\* for the page ends
ExtractEmailBody(page) ==
    CASE page.outcome = "timeout" -> Raises("Timeout")
      [] page.outcome = "status"  -> Raises("HTTPError")
      [] OTHER -> Returns(FirstOrNone(FilteredEmails(page.emails)))

\* _extract_email_from_website: the address, <<>> for None
ExtractEmailFromWebsite(page) == Except(ExtractEmailBody(page), Returns(<<>>)).value

\* the searches: every query is requested, the results of those that do not
\* raise are pooled
RECURSIVE AllResults(_, _)
AllResults(searches, k) ==
    IF k > Len(searches) THEN <<>>
    ELSE (IF searches[k].raised THEN <<>> ELSE searches[k].results)
         \o AllResults(searches, k + 1)

SearchRequests(searches) ==
    [k \in 1..Len(searches) |-> Request("search", "maps.googleapis.com", "textsearch")]

\* unique_results: the first result of each place_id
UniqueResults(all_results) ==
    Pick(all_results,
         {i \in 1..Len(all_results) : \A j \in 1..(i - 1) : all_results[j] # all_results[i]})

\* Place(...)
Place(details, email) ==
    [name |-> details.name,
     description |-> DescriptionOf(details),
     address |-> details.formatted_address,
     website |-> details.website,
     contact_email |-> email,
     phone_number |-> details.formatted_phone_number]

\* the requests one result causes
RequestsFor(place_id, details_outcome, website) ==
    <<Request("details", "maps.googleapis.com", place_id)>>
    \o (IF details_outcome = "ok" /\ website # NoWebsite
        THEN <<Request("page", website.host, website.path)>> ELSE <<>>)

\* the try / except of one result: its place is appended unless the details
\* request raises
DetailsStep(acc, place_id, details_outcome, details, page) ==
    [places |-> acc.places
                \o (IF details_outcome # "ok" THEN <<>>
                    ELSE <<Place(details,
                                 IF details.website # NoWebsite
                                 THEN ExtractEmailFromWebsite(page) ELSE <<>>)>>),
     trace  |-> acc.trace \o RequestsFor(place_id, details_outcome, details.website)]

\* for result in list(unique_results.values())[:10]
RECURSIVE DetailsLoop(_, _, _, _, _)
DetailsLoop(unique_results, details, pages, k, acc) ==
    IF k > Len(unique_results) THEN acc
    ELSE DetailsLoop(unique_results, details, pages, k + 1,
             DetailsStep(acc, unique_results[k], details[unique_results[k]],
                         PlaceDetails[unique_results[k]],
                         pages[PlaceDetails[unique_results[k]].website]))

\* the addresses of the locations, by their presence
LOCATION_ADDRESSES == {"Snellville, GA", "Duluth, GA"}

\* _scrape_real_events: the places, or the exception it raises, with the
\* requests it made
ScrapeRealEvents(api_key, location, searches, details, pages) ==
    IF api_key = "" \/ location \notin LOCATION_ADDRESSES
    THEN [raised |-> TRUE, places |-> <<>>, trace |-> <<>>]
    ELSE [raised |-> FALSE,
          places |-> DetailsLoop(FirstOf(UniqueResults(AllResults(searches, 1)), ResultLimit),
                                 details, pages, 1,
                                 [places |-> <<>>, trace |-> <<>>]).places,
          trace  |-> SearchRequests(searches)
                     \o DetailsLoop(FirstOf(UniqueResults(AllResults(searches, 1)), ResultLimit),
                                    details, pages, 1,
                                    [places |-> <<>>, trace |-> <<>>]).trace]

(***************************************************************************)
(* Contact enrichment as a run                                             *)
(***************************************************************************)
SearchFails == [raised |-> TRUE, results |-> <<>>]

SearchGives(results) == [raised |-> FALSE, results |-> results]

SearchOutcomes ==
    {SearchFails, SearchGives(<<"camp", "signup">>), SearchGives(<<"signup", "market">>)}

\* search_queries
search_queries == <<"query", "events", "activities", "local">>

PageOutcomes ==
    { [outcome |-> "timeout", emails |-> <<>>],
      [outcome |-> "ok", emails |-> <<>>],
      [outcome |-> "ok", emails |-> PageEmails] }

Websites == {PlaceDetails[p].website : p \in DOMAIN PlaceDetails} \ {NoWebsite}

InitContacts ==
    /\ tool = "ContactScraperTool"
    /\ \/ arg \in [api_key  : {"key"},
                   location : {"Snellville, GA"},
                   searches : [1..Len(search_queries) -> SearchOutcomes],
                   details  : [DOMAIN PlaceDetails -> {"ok", "timeout", "status"}],
                   pages    : [Websites -> PageOutcomes]]
       \/ arg \in [api_key  : {"", "key"},
                   location : {"Snellville, GA", "Atlanta, GA"},
                   searches : {[k \in 1..Len(search_queries) |-> SearchGives(<<"camp", "signup">>)]},
                   details  : {[p \in DOMAIN PlaceDetails |-> "ok"]},
                   pages    : {[w \in Websites |-> [outcome |-> "ok", emails |-> PageEmails]]}]
    /\ call = "none"
    /\ ret = <<>>
    /\ applied = 0

ScrapeContacts ==
    /\ tool = "ContactScraperTool"
    /\ call = "none"
    /\ call' = "_scrape_real_events"
    /\ ret' = ScrapeRealEvents(arg.api_key, arg.location, arg.searches, arg.details,
                               [w \in Websites \cup {NoWebsite} |->
                                   IF w = NoWebsite THEN [outcome |-> "ok", emails |-> <<>>]
                                   ELSE arg.pages[w]])
    /\ applied' = applied + 1
    /\ UNCHANGED <<tool, arg>>

NextContacts == ScrapeContacts

SpecContacts == InitContacts /\ [][NextContacts]_vars

Enriched == call = "_scrape_real_events" /\ ~ret.raised

\* the page requests of a run to a host
PageFetches(host) ==
    {i \in 1..Len(ret.trace) : ret.trace[i].kind = "page" /\ ret.trace[i].host = host}

\* C18: within one contact-enrichment call at most one page is fetched per
\* domain: of several places on one domain only the first is fetched.
C18_OneFetchPerDomain ==
    Enriched => \A w \in Websites : Cardinality(PageFetches(w.host)) <= 1

\* the places whose details the run is to ask for
Batch == FirstOf(UniqueResults(AllResults(arg.searches, 1)), ResultLimit)

\* the record of a place all of whose contact fields are null
NullRecord(record) ==
    /\ record.contact_email = <<>>
    /\ record.phone_number = ""
    /\ record.description = <<>>

\* C19: in a contact-enrichment batch an item whose fetch times out or fails is
\* still present in the result, with all its contact fields null, and every
\* other item of the batch is processed and returned.
C19_FailedItemKeptNull ==
    Enriched =>
        /\ Len(ret.places) = Len(Batch)
        /\ \A k \in 1..Len(Batch) :
              IF \/ arg.details[Batch[k]] # "ok"
                 \/ /\ PlaceDetails[Batch[k]].website # NoWebsite
                    /\ arg.pages[PlaceDetails[Batch[k]].website].outcome # "ok"
              THEN NullRecord(ret.places[k])
              ELSE ret.places[k].name = PlaceDetails[Batch[k]].name

\* the places of the batch whose details request succeeds
Detailed == Pick(Batch, {k \in 1..Len(Batch) : arg.details[Batch[k]] = "ok"})

\* what the code does: a place whose details request fails is left out, a
\* place whose page request fails has no email and keeps its other fields, and
\* every other place of the batch is returned, in order
FailedDetailsDropped ==
    Enriched =>
        /\ Len(ret.places) = Len(Detailed)
        /\ \A k \in 1..Len(Detailed) :
              /\ ret.places[k].name = PlaceDetails[Detailed[k]].name
              /\ ret.places[k].phone_number = PlaceDetails[Detailed[k]].formatted_phone_number
              /\ (/\ PlaceDetails[Detailed[k]].website # NoWebsite
                  /\ arg.pages[PlaceDetails[Detailed[k]].website].outcome # "ok")
                     => ret.places[k].contact_email = <<>>

(***************************************************************************)
(* The display of UTC timestamps by _format_date_with_timezone             *)
(***************************************************************************)
\* the days and the clock times of the well-formed timestamps of the runs
TimestampDays ==
    {MkDate(2025, 9, 2), MkDate(2025, 3, 9), MkDate(2025, 11, 2), MkDate(2025, 1, 1)}

TimestampClocks == {0, 3, 6, 11} \X {0, 30}

\* the calendar date a displayed text shows: <<date>>, and whether it shows a
\* time of day
DateShown(text) ==
    OrElse(Strptime(text, <<"%a",","," ","%b"," ","%d",","," ","%Y">>),
           Strptime(text, TimedDisplayFormat))

ShowsTime(text) == Strptime(text, TimedDisplayFormat) # <<>>

\* the day, counted from the calendar's first, on which an instant of UTC falls
\* in US/Eastern
EasternDay(dt) == (MinuteOf(dt) - 60 * HoursBehindUtc(dt)) \div (24 * 60)

\* what is displayed for the timestamp of day d at hour:minute UTC
ShownFor(text, d, hour, minute) ==
    IF hour = 0 /\ minute = 0
    THEN DateShown(text) = <<d>> /\ ~ShowsTime(text)
    ELSE /\ ShowsTime(text)
         /\ ToOrdinal(DateShown(text)[1]) = EasternDay(WithTime(d, hour, minute))

\* C20: a timestamp at midnight UTC is displayed as its own calendar date, with
\* no time and no timezone conversion, so never as the day before; a timestamp
\* is converted to US/Eastern, and displayed with its local time, only when its
\* hour or minute is not zero.
C20_MidnightIsAllDay ==
    call = "_format_date_with_timezone" =>
        /\ \A d \in TimestampDays : \A clock \in TimestampClocks :
              arg = StrValue(Timestamp(d, clock[1], clock[2]))
                  => ShownFor(ret.value.text, d, clock[1], clock[2])
        /\ arg = StrValue(HalfMinutePastMidnight) => ~ShowsTime(ret.value.text)

\* midnight UTC of 2 September 2025, which is 8 PM of 1 September in US/Eastern,
\* is displayed as 2 September
C20_Witness ==
    /\ call = "_format_date_with_timezone"
    /\ arg = StrValue(Timestamp(MkDate(2025, 9, 2), 0, 0))
    /\ EasternDay(WithTime(MkDate(2025, 9, 2), 0, 0)) = ToOrdinal(MkDate(2025, 9, 1))
    /\ ret.value = StrValue(DisplayDate(MkDate(2025, 9, 2)))

(***************************************************************************)
(* Titles that look like dates: _looks_like_date on the titles of a page   *)
(***************************************************************************)
\* what a page writes in a title, and the kind of date indicator it shows
TitleParts ==
    { [text |-> <<"W","e","d","n","e","s","d","a","y">>, kind |-> "weekday name"],
      [text |-> <<"S","e","p","t","e","m","b","e","r"," ","1","0">>, kind |-> "month name"],
      [text |-> <<"9","/","1","0">>, kind |-> "numeric slash-date"],
      [text |-> <<"2","0","2","5","/","2","0","2","6">>, kind |-> "numeric slash-date"],
      [text |-> <<"@","6">>, kind |-> "time-of-day marker"],
      [text |-> <<"6"," ","p","m">>, kind |-> "time-of-day marker"],
      [text |-> <<"G","a","l","a">>, kind |-> "none"] }

\* the longest title, in parts
MaxParts == 3

\* ', '.join(parts)
RECURSIVE JoinParts(_, _)
JoinParts(parts, k) ==
    IF k > Len(parts) THEN <<>>
    ELSE IF k = Len(parts) THEN parts[k].text
    ELSE parts[k].text \o <<",", " ">> \o JoinParts(parts, k + 1)

\* a title as the page writes it and as the Snellville pass hands it on
TitleAsWritten(parts) == JoinParts(parts, 1)

TitleAsPassed(parts) == Strip(Lower(JoinParts(parts, 1)))

InitTitles ==
    /\ tool = "ChurchesTool"
    /\ call = "none"
    /\ \E parts \in SeqsUpTo(TitleParts, MaxParts) \ {<<>>} :
          arg \in { [parts |-> parts, text |-> TitleAsWritten(parts)],
                    [parts |-> parts, text |-> TitleAsPassed(parts)] }
    /\ ret = FALSE
    /\ applied = 0

LooksLikeDateOfTitle ==
    /\ tool = "ChurchesTool"
    /\ call = "none"
    /\ call' = "_looks_like_date"
    /\ ret' = LooksLikeDate(arg.text)
    /\ applied' = applied + 1
    /\ UNCHANGED <<tool, arg>>

NextTitles == LooksLikeDateOfTitle

SpecTitles == InitTitles /\ [][NextTitles]_vars

\* the indicator kinds a title shows
KindsShown(parts) == {parts[k].kind : k \in 1..Len(parts)} \ {"none"}

\* C21: a title is classified as looking like a date exactly when it shows at
\* least two of the indicator kinds weekday name, month name, numeric
\* slash-date and time-of-day marker, in whatever letter case it is passed; a
\* title of a weekday name and a month name is so classified.
C21_DateIffTwoIndicatorKinds ==
    call = "_looks_like_date" =>
        (ret <=> Cardinality(KindsShown(arg.parts)) >= 2)

\* what the patterns do find in a lowered title: the indicators written in
\* digits, so that a title is classified as a date only when it holds two of
\* them, and a title of names alone never is
NamedKinds == {"weekday name", "month name", "none"}

NamesAloneNeverDates ==
    call = "_looks_like_date" =>
        /\ KindsShown(arg.parts) \subseteq NamedKinds => ~ret
        /\ ret => Cardinality({k \in 1..Len(arg.parts) :
                                  arg.parts[k].kind \notin NamedKinds}) >= 1

(***************************************************************************)
(* The sample on which a pattern of the church cascade is judged           *)
(***************************************************************************)
\* the elements pattern p selects
Selected(p) == arg.containers[p].elements

\* the title an element holds for the title selectors: the text of the first
\* of them that finds any
HasTitle(element) ==
    \E i \in 1..Len(element.title) : element.title[i] \notin {"", "raise"}

TitleHeld(element) ==
    element.title[CHOOSE i \in 1..Len(element.title) :
                      /\ element.title[i] \notin {"", "raise"}
                      /\ \A j \in 1..(i - 1) : element.title[j] \in {"", "raise"}]

\* where the elements with a title stand among those pattern p selects
TitledAt(p) == {j \in 1..Len(Selected(p)) : HasTitle(Selected(p)[j])}

TitlesOf(p) ==
    LET titled == Pick(Selected(p), TitledAt(p))
    IN  [j \in 1..Len(titled) |-> TitleHeld(titled[j])]

\* pattern p has an element with a title among the first SampleSize it selects
WorksOnSample(p) == \E j \in TitledAt(p) : j <= SampleSize

\* C22: a pattern is judged on its first SampleSize matching containers: it
\* works exactly when one of them gives a title.  A pattern that does not work
\* contributes nothing and the next pattern is tried; the first pattern that
\* works gives a record for every container with a title, those beyond the
\* sample included.
C22_JudgedOnSample ==
    call = "_scrape_church_calendar_auto" =>
        /\ \A p \in 1..Len(common_selectors) :
              (WorksOnSample(p) /\ \A q \in 1..(p - 1) : ~WorksOnSample(q)) =>
                  /\ ret.tried = UpTo(p)
                  /\ ret.events = TitlesOf(p)
        /\ (\A p \in 1..Len(common_selectors) : ~WorksOnSample(p)) =>
              /\ ret.tried = UpTo(Len(common_selectors))
              /\ ret.events = <<>>

\* the pattern 'li' works after '.event' did not, and gives records for the
\* list items beyond its sample
C22_Witness ==
    /\ call = "_scrape_church_calendar_auto"
    /\ Selected(1) = <<Navigation>>
    /\ ~WorksOnSample(1) /\ WorksOnSample(2)
    /\ \E j \in TitledAt(2) : j > SampleSize
    /\ Len(ret.events) = Cardinality(TitledAt(2))
    /\ ret.events = arg.items

\* a pattern whose only titles stand beyond the sample does not work: the
\* patterns after it are tried and the page gives nothing
TitlesBeyondSampleLost ==
    /\ call = "_scrape_church_calendar_auto"
    /\ TitledAt(2) # {}
    /\ ~WorksOnSample(2)
    /\ ret.tried = UpTo(Len(common_selectors))
    /\ ret.events = <<>>

(***************************************************************************)
(* Texts no template matches                                               *)
(***************************************************************************)
\* the templates of the parser called
TemplatesOf(name) == IF name = "_parse_date_auto" THEN formats ELSE date_formats

\* a text without a deadline prefix, a time annotation or a range, which is
\* matched against the templates as it stands
Unmarked(text) ==
    /\ \A i \in 1..Len(text) : text[i] # "@"
    /\ ~Contains(Lower(text), Lower(DeadlinePrefix))
    /\ ~Contains(text, <<" ","-"," ">>)
    /\ \A b \in 2..Len(text) : MultiDayAt(text, b) = 0

NoTemplateMatches(name, text) == FirstFormat(Strip(text), TemplatesOf(name), 1) = <<>>

\* C23: when no format template matches, the parser returns no date: nothing is
\* read by a looser parser or pulled out of the surrounding text.
C23_NoTemplateNoDate ==
    (/\ call \in {"_parse_date_auto", "_parse_event_date"}
     /\ arg.type = "str"
     /\ Unmarked(arg.text)
     /\ NoTemplateMatches(call, arg.text))
        => ret.value = <<>>

\* _parse_date_auto has no attempt after its templates
ChurchesNoTemplateNoDate ==
    (/\ call = "_parse_date_auto"
     /\ arg.type = "str"
     /\ Unmarked(arg.text)
     /\ NoTemplateMatches(call, arg.text))
        => ret.value = <<>>

\* what _parse_event_date returns for a text no template matches: the date its
\* regular expressions find inside the text, completed with the current year
SchoolsReadsFragment ==
    (/\ call = "_parse_event_date"
     /\ arg \in {StrValue(PictureDaySep5), StrValue(DueBy95)})
        => /\ NoTemplateMatches(call, arg.text)
           /\ ret.value = <<MkDate(CurrentYear, 9, 5)>>

(***************************************************************************)
(* The date parsers on the renderings of a day by a template without year  *)
(***************************************************************************)
\* the days of the month the runs render
RenderedDays == {1, 9, 12, 13, 28, 29, 30, 31}

\* the days of the reference year among them
ReferenceYearDates ==
    {MkDate(CurrentYear, month, day) : month \in 1..12,
                                       day \in {n \in RenderedDays : n <= 28}}
    \cup {d \in [year : {CurrentYear}, month : 1..12, day : {29, 30, 31}] :
             d.day <= DaysInMonth(d.year, d.month)}

\* the templates of a list that render a day and a month and no year
YearlessTemplates(templates) ==
    {fmt \in Range(templates) : "%Y" \notin Range(fmt) /\ "%d" \in Range(fmt)}

\* the rendering of a date by a template, at half past two in the afternoon
\* where the template shows a time
Rendering(fmt, d) == Strftime(fmt, WithTime(d, 14, 30))

InitYearless ==
    /\ \/ /\ tool = "ChurchesTool"
          /\ arg \in [date : ReferenceYearDates, template : YearlessTemplates(formats)]
       \/ /\ tool = "SchoolsTool"
          /\ arg \in [date : ReferenceYearDates, template : YearlessTemplates(date_formats)]
    /\ call = "none"
    /\ ret = <<>>
    /\ applied = 0

\* _parse_date_auto on the rendering
ChurchesParseYearless ==
    /\ tool = "ChurchesTool"
    /\ call = "none"
    /\ call' = "_parse_date_auto"
    /\ ret' = ParseDateAuto(StrValue(Rendering(arg.template, arg.date))).value
    /\ applied' = applied + 1
    /\ UNCHANGED <<tool, arg>>

\* _parse_event_date on the rendering
SchoolsParseYearless ==
    /\ tool = "SchoolsTool"
    /\ call = "none"
    /\ call' = "_parse_event_date"
    /\ ret' = ParseEventDateValue(StrValue(Rendering(arg.template, arg.date))).value
    /\ applied' = applied + 1
    /\ UNCHANGED <<tool, arg>>

NextYearless == ChurchesParseYearless \/ SchoolsParseYearless

SpecYearless == InitYearless /\ [][NextYearless]_vars

\* C24: the rendering of a month and day of the reference year by a template
\* without a year parses to that month and day in the reference year.
C24_YearlessInReferenceYear ==
    Parsed => ret = <<arg.date>>

\* _parse_event_date does so for every day of the reference year rendered
SchoolsYearlessInReferenceYear ==
    (Parsed /\ tool = "SchoolsTool") => ret = <<arg.date>>

\* _parse_date_auto gives no date for any of the renderings
ChurchesYearlessUnparsed ==
    (Parsed /\ tool = "ChurchesTool") => ret = <<>>

(***************************************************************************)
(* The range handling of _parse_date_auto                                  *)
(***************************************************************************)
RangeSeparator == <<" ","-"," ">>

\* where the first range separator of a text starts, 0 without one
SeparatorAt(text) ==
    IF Contains(text, RangeSeparator)
    THEN CHOOSE i \in 1..Len(text) :
             /\ MatchAt(text, i, RangeSeparator)
             /\ \A j \in 1..(i - 1) : ~MatchAt(text, j, RangeSeparator)
    ELSE 0

LeftHandSide(text) == Strip(SubSeq(text, 1, SeparatorAt(text) - 1))

RightHandSide(text) ==
    Strip(SubSeq(text, SeparatorAt(text) + Len(RangeSeparator), Len(text)))

\* the text reads as a date by one of the templates
LooksLikeADate(text) == FirstFormat(text, formats, 1) # <<>>

\* the date the range rule gives a text: that of its left-hand side when a
\* second date follows a separator, that of the whole text otherwise
RangeRuleDate(text) ==
    IF SeparatorAt(text) > 0 /\ LooksLikeADate(RightHandSide(text))
    THEN FirstFormat(LeftHandSide(text), formats, 1)
    ELSE FirstFormat(Strip(text), formats, 1)

\* a text without a deadline prefix, a time annotation or a hyphenated run of
\* days
RangeRuleText(value) ==
    /\ value.type = "str"
    /\ \A i \in 1..Len(value.text) : value.text[i] # "@"
    /\ ~Contains(Lower(value.text), Lower(DeadlinePrefix))
    /\ \A b \in 2..Len(value.text) : MultiDayAt(value.text, b) = 0

\* C25: a text with a range separator followed by a second date parses to its
\* left-hand date alone; a text without a separator, or with something else
\* than a date after it, is parsed as a whole.
C25_RangeKeepsLeftDate ==
    (call = "_parse_date_auto" /\ RangeRuleText(arg)) =>
        ret.value = RangeRuleDate(arg.text)

\* what _parse_date_auto does with such a text: its range handling raises
\* re.error, with or without a separator in the text, and no date is returned
RangeHandlingRaises ==
    (call = "_parse_date_auto" /\ RangeRuleText(arg)) =>
        /\ ret.exception = "re.error"
        /\ ret.value = <<>>

\* the texts of the runs hold the cases of the rule
RangeRuleCases ==
    /\ RangeRuleDate(Sep5to7) = <<MkDate(CurrentYear, 9, 5)>>
    /\ RangeRuleDate(Sep5) = <<MkDate(CurrentYear, 9, 5)>>
    /\ RangeRuleDate(Sep5toTba) = <<>>

(***************************************************************************)
(* FamilyEventSearchTool of backend/tools/family_event_search.py: the      *)
(* loop of __call__ and the category tasks of search_async.                *)
(*                                                                         *)
(* A Google search of a category ends "failed" (success is False), "empty" *)
(* (no result has a website) or "urls".  No category ever gives events:    *)
(* __call__ hands the scraper {"urls": urls}, which its validate_input     *)
(* rejects for want of a location, and search_async calls                  *)
(* scrape_contacts_from_urls_async, which ContactScraperTool does not      *)
(* define.  The diagnostics and the categories searched are kept as sets:  *)
(* the order in which the tasks of search_async run is not recorded.       *)
(***************************************************************************)
\* how many of the fifteen categories a run searches
MaxCategories == 6

family_categories ==
    SubSeq(<< "summer camp", "after school program", "youth sports",
              "school spirit day", "family recreation center", "ymca",
              "boys and girls club", "community center", "parks and recreation",
              "youth activities", "teen programs", "family events",
              "school events", "community sports", "youth clubs" >>,
           1, MaxCategories)

\* asyncio.Semaphore(5)
SemaphoreSlots == 5

GoogleOutcomes == {"failed", "empty", "urls"}

\* what self.google_tool(search_input) returns: GoogleSearchTool.__call__
\* catches every exception of its search
GoogleResult(outcome, category) ==
    [success |-> outcome # "failed",
     urls    |-> IF outcome = "urls" THEN <<"https://a.example/" \o category>> ELSE <<>>]

\* validate_input of ContactScraperTool and of FamilyEventSearchTool
ValidateInput(input_data) ==
    IF "location" \notin DOMAIN input_data
    THEN Raises("Missing required field: location")
    ELSE IF input_data.location = ""
    THEN Raises("Field location must be a non-empty string")
    ELSE Returns(<<>>)

\* BaseTool.handle_error
HandleError(error) == [success |-> FALSE, error |-> error]

\* ContactScraperTool.__call__ (the places of a valid input are those of
\* ScrapeRealEvents and are not looked at by this caller)
ContactScraperCall(input_data) ==
    IF ValidateInput(input_data).raised
    THEN HandleError(ValidateInput(input_data).exception)
    ELSE [success |-> TRUE, error |-> ""]

\* source_counts[category] = count
Counted(source_counts, category, count) ==
    [c \in DOMAIN source_counts \cup {category} |->
        IF c = category THEN count ELSE source_counts[c]]

\* nothing gathered yet
NothingGathered ==
    [events |-> <<>>, source_counts |-> [c \in {} |-> 0], errors |-> {},
     searched |-> {}]

Searched(acc, category) == [acc EXCEPT !.searched = @ \cup {category}]

\* a failing category, were its count left unset
FailedUncounted(acc, category, diagnostic) ==
    [acc EXCEPT !.errors = @ \cup {[category |-> category, diagnostic |-> diagnostic]}]

\* errors.append(...) and source_counts[category] = 0
Failed(acc, category, diagnostic) ==
    [acc EXCEPT !.errors = @ \cup {[category |-> category, diagnostic |-> diagnostic]},
                !.source_counts = Counted(@, category, 0)]

\* source_counts[category] = 0 without a diagnostic
Empty(acc, category) == [acc EXCEPT !.source_counts = Counted(@, category, 0)]

\* one turn of `for category in self.family_categories` of __call__, after
\* the search; scrape_result has no 'results' key (KeyError) when it succeeds
CategoryStep(acc, category, google_result) ==
    IF ~google_result.success THEN Failed(acc, category, "Google search failed")
    ELSE IF google_result.urls = <<>> THEN Empty(acc, category)
    ELSE IF ~ContactScraperCall([urls |-> google_result.urls]).success
    THEN Failed(acc, category, "Scraping failed")
    ELSE Failed(acc, category, "KeyError")

RECURSIVE CategoryLoop(_, _, _)
CategoryLoop(results, k, acc) ==
    IF k > Len(family_categories) THEN acc
    ELSE CategoryLoop(results, k + 1,
             CategoryStep(Searched(acc, family_categories[k]), family_categories[k],
                          GoogleResult(results[k], family_categories[k])))

\* the result dict; the events are unique by title and website
FamilyResult(acc) ==
    [success |-> TRUE, events |-> acc.events, total_count |-> Len(acc.events),
     source_counts |-> acc.source_counts, errors |-> acc.errors,
     searched |-> acc.searched, error |-> ""]

FamilyError(error) ==
    [success |-> FALSE, events |-> <<>>, total_count |-> 0,
     source_counts |-> [c \in {} |-> 0], errors |-> {}, searched |-> {},
     error |-> error]

\* a run: how far it is, the state of each category task, the free slots of
\* the semaphore, what is gathered and what is returned
Run(status, tasks, semaphore, acc, value) ==
    [status |-> status, tasks |-> tasks, semaphore |-> semaphore, acc |-> acc,
     value |-> value]

NoTasks == [k \in 1..Len(family_categories) |-> "created"]

NoRun == Run("none", NoTasks, 0, NothingGathered, FamilyError(""))

\* FamilyEventSearchTool.__call__
FamilyCall(input_data, results) ==
    IF ValidateInput(input_data).raised
    THEN Run("returned", NoTasks, 0, NothingGathered,
             FamilyError(ValidateInput(input_data).exception))
    ELSE Run("returned", results, 0, CategoryLoop(results, 1, NothingGathered),
             FamilyResult(CategoryLoop(results, 1, NothingGathered)))

\* process_category after the search: the early returns, and the
\* AttributeError of the scrape caught by `except Exception`
ProcessCategory(acc, category, google_result) ==
    IF ~google_result.success THEN Failed(acc, category, "Google search failed")
    ELSE IF google_result.urls = <<>> THEN Empty(acc, category)
    ELSE Failed(acc, category, "AttributeError")

\* leaving `async with semaphore`, were the slot kept when the search failed
ReleaseUnlessFailed(semaphore, outcome) ==
    IF outcome = "failed" THEN semaphore ELSE semaphore + 1

\* leaving `async with semaphore`: the slot is released however the body ends
Release(semaphore, outcome) == semaphore + 1

InitFamily ==
    /\ tool = "FamilyEventSearchTool"
    /\ call = "none"
    /\ \/ arg \in [input_data : {[location |-> "Snellville"]},
                   entry      : {"__call__"},
                   results    : [1..Len(family_categories) -> GoogleOutcomes]]
       \/ arg \in [input_data : {[location |-> "Snellville"], [location |-> ""]},
                   entry      : {"__call__", "search_async"},
                   results    : {[k \in 1..Len(family_categories) |-> "empty"]}]
    /\ ret = NoRun
    /\ applied = 0

\* the synchronous entry point, as a whole
CallFamilySearch ==
    /\ call = "none"
    /\ arg.entry = "__call__"
    /\ call' = "__call__"
    /\ ret' = FamilyCall(arg.input_data, arg.results)
    /\ applied' = applied + 1
    /\ UNCHANGED <<tool, arg>>

\* search_async up to the creation of the category tasks
StartSearchAsync ==
    /\ call = "none"
    /\ arg.entry = "search_async"
    /\ call' = "search_async"
    /\ ret' = IF ValidateInput(arg.input_data).raised
              THEN Run("raised", NoTasks, 0, NothingGathered,
                       FamilyError(ValidateInput(arg.input_data).exception))
              ELSE Run("running", NoTasks, SemaphoreSlots, NothingGathered,
                       FamilyError(""))
    /\ applied' = applied + 1
    /\ UNCHANGED <<tool, arg>>

\* a category task enters `async with semaphore` and hands its search to the
\* executor
EnterSection(k) ==
    /\ call = "search_async"
    /\ ret.status = "running"
    /\ ret.tasks[k] = "created"
    /\ ret.semaphore > 0
    /\ ret' = [ret EXCEPT !.tasks[k] = "searching",
                          !.semaphore = @ - 1,
                          !.acc = Searched(@, family_categories[k])]
    /\ UNCHANGED <<tool, call, arg, applied>>

\* the search of a category task ends; the task runs to its end and leaves
\* the section
LeaveSection(k, outcome) ==
    /\ call = "search_async"
    /\ ret.status = "running"
    /\ ret.tasks[k] = "searching"
    /\ ret' = [ret EXCEPT !.tasks[k] = outcome,
                          !.semaphore = Release(@, outcome),
                          !.acc = ProcessCategory(@, family_categories[k],
                                      GoogleResult(outcome, family_categories[k]))]
    /\ UNCHANGED <<tool, call, arg, applied>>

\* every task is over: the events are made unique and the result returned
ReturnSearchAsync ==
    /\ call = "search_async"
    /\ ret.status = "running"
    /\ \A k \in 1..Len(family_categories) : ret.tasks[k] \in GoogleOutcomes
    /\ ret' = [ret EXCEPT !.status = "returned", !.value = FamilyResult(ret.acc)]
    /\ UNCHANGED <<tool, call, arg, applied>>

NextFamily ==
    \/ CallFamilySearch
    \/ StartSearchAsync
    \/ \E k \in 1..Len(family_categories) : EnterSection(k)
    \/ \E k \in 1..Len(family_categories) : \E outcome \in GoogleOutcomes :
          LeaveSection(k, outcome)
    \/ ReturnSearchAsync

SpecFamily == InitFamily /\ [][NextFamily]_vars

\* the event loop runs a task that can run, and every search ends
SpecFamilyFair == SpecFamily /\ WF_vars(NextFamily)

\* the entry point has returned or raised
FamilySearchOver == call \in {"__call__", "search_async"} /\ ret.status # "running"

\* the diagnostics that name a category
DiagnosticsOf(category) == {e \in ret.value.errors : e.category = category}

\* C26: for a valid location the family search gives a best-effort result
\* whatever the searches do: it does not raise and reports success; every
\* category is searched and has an entry in source_counts; a category whose
\* search or scrape fails has a diagnostic in errors and counts 0.
C26_BestEffortResult ==
    (FamilySearchOver /\ arg.input_data.location # "") =>
        /\ ret.status = "returned"
        /\ ret.value.success
        /\ DOMAIN ret.value.source_counts = Range(family_categories)
        /\ ret.value.searched = Range(family_categories)
        /\ \A k \in 1..Len(family_categories) :
              ret.tasks[k] \in {"failed", "urls"} =>
                  /\ ret.value.source_counts[family_categories[k]] = 0
                  /\ DiagnosticsOf(family_categories[k]) # {}

\* search_async has returned after a search that failed, a search without
\* websites and a scrape that failed, each in its own category
C26_Witness ==
    /\ call = "search_async"
    /\ ret.status = "returned"
    /\ ret.tasks[1] = "failed" /\ ret.tasks[2] = "empty" /\ ret.tasks[3] = "urls"
    /\ \E e \in DiagnosticsOf(family_categories[3]) : e.diagnostic = "AttributeError"
    /\ DiagnosticsOf(family_categories[2]) = {}
    /\ DOMAIN ret.value.source_counts = Range(family_categories)

\* no category of either entry point ever gives an event
NoCategoryGivesEvents ==
    FamilySearchOver => ret.value.events = <<>>

\* without a valid location __call__ returns a failure and search_async raises
InvalidLocationSurfaced ==
    (FamilySearchOver /\ arg.input_data.location = "") =>
        /\ ~ret.value.success
        /\ ret.status = IF call = "__call__" THEN "returned" ELSE "raised"

\* the category tasks inside `async with semaphore`
InSection == {k \in 1..Len(family_categories) : ret.tasks[k] = "searching"}

SlotsAccounted ==
    (call = "search_async" /\ ret.status = "running") =>
        /\ Cardinality(InSection) <= SemaphoreSlots
        /\ ret.semaphore = SemaphoreSlots - Cardinality(InSection)

\* C30: at most five category tasks are inside the section guarded by the
\* semaphore at any moment, under every interleaving; the slot is given back
\* on every way out of the section, so that no task waits forever: a search
\* that has started returns.
C30_AtMostFiveInSection ==
    /\ []SlotsAccounted
    /\ (call = "search_async") ~> (ret.status \in {"returned", "raised"})

\* five tasks are inside the section, the semaphore has no free slot, and
\* a sixth task waits
C30_Witness ==
    /\ call = "search_async"
    /\ ret.status = "running"
    /\ Cardinality(InSection) = SemaphoreSlots
    /\ ret.semaphore = 0
    /\ \E k \in 1..Len(family_categories) : ret.tasks[k] = "created"

(***************************************************************************)
(* The pauses of ChurchesTool.execute and SchoolsTool.execute, read off    *)
(* the trace of a run under SpecExecute.                                   *)
(***************************************************************************)
\* the places of a trace where a request follows a request at once
BackToBack(trace) ==
    {i \in 1..(Len(trace) - 1) : trace[i] # "sleep" /\ trace[i + 1] # "sleep"}

\* the trace does not end with a pause
EndsWithRequest(trace) == trace = <<>> \/ trace[Len(trace)] # "sleep"

\* C27: in ChurchesTool.execute and SchoolsTool.execute a pause separates
\* every two successive fetches of configured source pages, over the whole
\* run, and no pause follows the last fetch.
C27_PauseBetweenFetches ==
    (Executed /\ tool \in {"ChurchesTool", "SchoolsTool"}) =>
        /\ BackToBack(ret.trace) = {}
        /\ EndsWithRequest(ret.trace)

\* the churches are one list: the claim holds of ChurchesTool.execute
ChurchesPauseBetweenFetches ==
    (Executed /\ tool = "ChurchesTool") =>
        /\ BackToBack(ret.trace) = {}
        /\ EndsWithRequest(ret.trace)

\* the places of the trace of a school run where the list of a school type
\* ends and the next begins: each URL but the last of its list is followed
\* by a pause
TypeBoundaries(school_config) ==
    {2 * Len(SchoolUrls(SubSeq(school_config, 1, t), 1)) - t :
        t \in 1..(Len(school_config) - 1)}

\* in SchoolsTool.execute the fetches that follow one another without a pause
\* are exactly the last of a school type and the first of the next
SchoolsPauseWithinTypeOnly ==
    (Executed /\ tool = "SchoolsTool" /\ HasEntry) =>
        /\ BackToBack(ret.trace) = TypeBoundaries(SchoolsLocationConfig[arg.location])
        /\ EndsWithRequest(ret.trace)

\* a school run whose last elementary school and first middle school are
\* fetched back to back
SchoolTypesBackToBack ==
    /\ Executed
    /\ tool = "SchoolsTool"
    /\ HasEntry
    /\ ret.trace[3] = "https://shilohes.gcpsk12.org/calendar-c3"
    /\ ret.trace[4] = "https://snellvillems.gcpsk12.org/calendar"

(***************************************************************************)
(* The window of SchoolsTool.execute: events dated around today and        *)
(* around today + DEFAULT_DAYS_AHEAD go through the end of execute         *)
(* (deduplication, the date filter, consolidation).                        *)
(***************************************************************************)
\* how many events the sources of a run give
MaxScraped == 3

\* the day before today, today and the day after; the day before the end of
\* the window, the end and the day after
WindowDates ==
    { MkDate(2025, 8, 31), Today, MkDate(2025, 9, 2),
      MkDate(2025, 9, 14), AddDays(Today, DEFAULT_DAYS_AHEAD), MkDate(2025, 9, 16) }

WindowEvents ==
    {SchoolEvent(LunchVisitors, DisplayDate(d), Brookwood) : d \in WindowDates}
    \cup { SchoolEvent(LunchVisitors, ToBeAnnounced, Brookwood),
           SchoolEvent(PtaMeeting, DateNotSpecified, Brookwood) }

InitWindow ==
    /\ tool = "SchoolsTool"
    /\ arg \in [events : SeqsUpTo(WindowEvents, MaxScraped)]
    /\ call = "none"
    /\ ret = <<>>
    /\ applied = 0

\* lines 98-115 of execute on the events gathered
SchoolsExecuteEnd ==
    /\ call = "none"
    /\ call' = "execute"
    /\ ret' = SchoolsReturn(arg.events)
    /\ applied' = applied + 1
    /\ UNCHANGED <<tool, arg>>

NextWindow == SchoolsExecuteEnd

SpecWindow == InitWindow /\ [][NextWindow]_vars

\* today <= d <= today + 14 days
InWindow(d) ==
    /\ DaysBetween(d, Today) >= 0
    /\ DaysBetween(d, Today) <= 14

\* the text is the date d as the scrapers write it
Dated(text, d) == text = DisplayDate(d)

\* the returned event is the consolidation of a run from start to end
RangeOf(event, start, end) ==
    /\ start # end
    /\ Dated(event.date, start)
    /\ event.when = DateRangeStr(start, end)

\* C28: every event SchoolsTool.execute returns whose date can be parsed has
\* a date in the window from today to today + 14 days, both ends included;
\* an event consolidated from recurring events has the start and the end of
\* its range in the window; an event whose date cannot be parsed is returned
\* whatever the window.
C28_ReturnedInWindow ==
    Executed =>
        /\ \A j \in 1..Len(ret) :
              \/ ParseEventDate(ret[j].date) = <<>>
              \/ InWindow(ParseEventDate(ret[j].date)[1])
        /\ \A j \in 1..Len(ret) :
              \/ ret[j].when = ret[j].date
              \/ \E start, end \in {d \in WindowDates : InWindow(d)} :
                    RangeOf(ret[j], start, end)
        /\ \A i \in 1..Len(arg.events) :
              ParseEventDate(arg.events[i].date) = <<>> => Returned(arg.events[i])

\* events at both ends of the window and an event without a date are
\* returned, and an event of the day after the window is not
C28_Witness ==
    /\ Executed
    /\ \E i \in 1..Len(arg.events) : Dated(arg.events[i].date, MkDate(2025, 9, 16))
    /\ \E j \in 1..Len(ret) : Dated(ret[j].date, AddDays(Today, DEFAULT_DAYS_AHEAD))
    /\ \E j \in 1..Len(ret) : ret[j].date = ToBeAnnounced
    /\ \A j \in 1..Len(ret) : ~Dated(ret[j].date, MkDate(2025, 9, 16))

\* a run from the day before the end of the window to its end is returned
\* as one range although the day after the window was scraped too
RangeEndsWithWindow ==
    /\ Executed
    /\ \E i \in 1..Len(arg.events) : Dated(arg.events[i].date, MkDate(2025, 9, 16))
    /\ \E j \in 1..Len(ret) :
          RangeOf(ret[j], MkDate(2025, 9, 14), AddDays(Today, DEFAULT_DAYS_AHEAD))

\* a run that begins the day before today is returned as a range from today
RangeStartsWithWindow ==
    /\ Executed
    /\ \E i \in 1..Len(arg.events) : Dated(arg.events[i].date, MkDate(2025, 8, 31))
    /\ \E j \in 1..Len(ret) : RangeOf(ret[j], Today, MkDate(2025, 9, 2))

\* every scraped event dated in the window is returned, alone or as the
\* start or a later date of a range
WindowEventsReturned ==
    Executed =>
        \A i \in 1..Len(arg.events) : \A d \in {w \in WindowDates : InWindow(w)} :
            Dated(arg.events[i].date, d) =>
                \/ Returned(arg.events[i])
                \/ \E j \in 1..Len(ret) :
                      \E start, end \in {w \in WindowDates : InWindow(w)} :
                          /\ RangeOf(ret[j], start, end)
                          /\ DaysBetween(d, start) >= 0
                          /\ DaysBetween(end, d) >= 0

(***************************************************************************)
(* coordination_node: the control node that walks FAMILY_CATEGORIES.       *)
(*                                                                         *)
(* The node changes the state object it is handed and returns a patch.  A  *)
(* run calls it again and again, either on the same object ("object") or   *)
(* on a state to which only the returned patch was applied ("patch").      *)
(* None is written "None"; a key absent from the patch is "None" for       *)
(* current_category and FALSE for is_complete.                             *)
(***************************************************************************)
FAMILY_CATEGORIES ==
    << "indoor events", "after school programs", "family recreation center",
       "community center", "youth activities", "teen programs", "family events",
       "school events", "community events", "youth sports clubs" >>

\* how many times a run calls the node
MaxCalls == 13

NoCategory == "None"

WorkflowState(current_category, is_complete) ==
    [current_category |-> current_category, is_complete |-> is_complete]

\* return {}
EmptyPatch == [current_category |-> NoCategory, is_complete |-> FALSE]

\* FAMILY_CATEGORIES.index(category) + 1, or 0 for ValueError
CategoryIndex(category) ==
    IF category \in Range(FAMILY_CATEGORIES)
    THEN CHOOSE i \in 1..Len(FAMILY_CATEGORIES) :
            /\ FAMILY_CATEGORIES[i] = category
            /\ \A j \in 1..(i - 1) : FAMILY_CATEGORIES[j] # category
    ELSE 0

\* lines 30-41 that go round the list again after its last entry
AdvanceWraps(idx) ==
    IF idx = 0 THEN WorkflowState(NoCategory, TRUE)
    ELSE IF idx < Len(FAMILY_CATEGORIES)
    THEN WorkflowState(FAMILY_CATEGORIES[idx + 1], FALSE)
    ELSE WorkflowState(FAMILY_CATEGORIES[1], FALSE)

\* lines 30-41: the next category, or complete after the last one and on
\* ValueError
Advance(idx) ==
    IF idx = 0 THEN WorkflowState(NoCategory, TRUE)
    ELSE IF idx < Len(FAMILY_CATEGORIES)
    THEN WorkflowState(FAMILY_CATEGORIES[idx + 1], FALSE)
    ELSE WorkflowState(NoCategory, TRUE)

\* lines 43-49: the fields that changed and are not None
PatchOf(state) ==
    [current_category |-> state.current_category, is_complete |-> state.is_complete]

NodeResult(state, patch) == [state |-> state, patch |-> patch]

\* coordination_node(state): the state object after the call and the patch
CoordinationNode(state) ==
    IF state.is_complete THEN NodeResult(state, EmptyPatch)
    ELSE IF state.current_category = NoCategory
    THEN NodeResult(WorkflowState(FAMILY_CATEGORIES[1], FALSE),
                    [current_category |-> FAMILY_CATEGORIES[1], is_complete |-> FALSE])
    ELSE NodeResult(Advance(CategoryIndex(state.current_category)),
                    PatchOf(Advance(CategoryIndex(state.current_category))))

\* the state of the workflow once the patch is applied to it
ApplyPatch(state, patch) ==
    WorkflowState(IF patch.current_category # NoCategory THEN patch.current_category
                  ELSE state.current_category,
                  state.is_complete \/ patch.is_complete)

\* the state the next call is handed
Carried(update, state, result) ==
    IF update = "object" THEN result.state ELSE ApplyPatch(state, result.patch)

\* the categories the calls have set, in order
Visited(visited, patch) ==
    IF patch.current_category # NoCategory THEN Append(visited, patch.current_category)
    ELSE visited

Walk(state, patch, visited, calls) ==
    [state |-> state, patch |-> patch, visited |-> visited, calls |-> calls]

InitCoordination ==
    /\ tool = "coordination_node"
    /\ call = "none"
    /\ arg \in [state  : [current_category : {NoCategory, "unknown"}
                                              \cup Range(FAMILY_CATEGORIES),
                          is_complete      : BOOLEAN],
                update : {"object", "patch"}]
    /\ ret = Walk(arg.state, EmptyPatch, <<>>, 0)
    /\ applied = 0

\* one call of the node on the state of the run
CallCoordinationNode ==
    /\ ret.calls < MaxCalls
    /\ call' = "coordination_node"
    /\ ret' = Walk(Carried(arg.update, ret.state, CoordinationNode(ret.state)),
                   CoordinationNode(ret.state).patch,
                   Visited(ret.visited, CoordinationNode(ret.state).patch),
                   ret.calls + 1)
    /\ applied' = applied + 1
    /\ UNCHANGED <<tool, arg>>

NextCoordination == CallCoordinationNode

SpecCoordination == InitCoordination /\ [][NextCoordination]_vars

\* the caller goes on calling the node
SpecCoordinationFair == SpecCoordination /\ WF_vars(NextCoordination)

\* the run began with current_category=None and is_complete=False
FreshRun == arg.state = WorkflowState(NoCategory, FALSE)

\* from a fresh state the k-th call sets the k-th category, and the call
\* after the last category completes
InListOrder ==
    FreshRun =>
        /\ ret.calls <= Len(FAMILY_CATEGORIES) =>
              /\ ~ret.state.is_complete
              /\ ret.visited = SubSeq(FAMILY_CATEGORIES, 1, ret.calls)
              /\ ret.calls > 0 => ret.state.current_category = FAMILY_CATEGORIES[ret.calls]
        /\ ret.calls > Len(FAMILY_CATEGORIES) =>
              /\ ret.state.is_complete
              /\ ret.visited = FAMILY_CATEGORIES

\* from any state the run is complete after one call more than the list is
\* long; an unknown category completes with the first call
CompleteInBoundedCalls ==
    /\ ret.calls > Len(FAMILY_CATEGORIES) => ret.state.is_complete
    /\ (arg.state.current_category = "unknown" /\ ret.calls > 0) => ret.state.is_complete

\* once complete, a call returns an empty patch and changes nothing
CompleteIsFinal ==
    [][ret.state.is_complete =>
          /\ ret'.patch = EmptyPatch
          /\ ret'.state = ret.state
          /\ ret'.visited = ret.visited]_vars

\* C29: called again and again from current_category=None and
\* is_complete=False, coordination_node sets current_category to each entry
\* of FAMILY_CATEGORIES in list order, each once, and sets is_complete after
\* the last; from any state it reaches is_complete after finitely many
\* calls, at once from an unknown category; once is_complete holds, every
\* further call returns an empty patch and changes nothing.
C29_WalksListThenCompletes ==
    /\ []InListOrder
    /\ []CompleteInBoundedCalls
    /\ CompleteIsFinal
    /\ <>(ret.state.is_complete)

\* a fresh run has set every category, is complete, and has been called
\* again since
C29_Witness ==
    /\ FreshRun
    /\ ret.calls = Len(FAMILY_CATEGORIES) + 2
    /\ ret.state.is_complete
    /\ ret.visited = FAMILY_CATEGORIES
    /\ ret.patch = EmptyPatch

\* a run from an unknown category is complete after its first call
UnknownCompletesAtOnce ==
    /\ arg.state = WorkflowState("unknown", FALSE)
    /\ ret.calls = 1
    /\ ret.state.is_complete
    /\ ret.patch = [current_category |-> NoCategory, is_complete |-> TRUE]

\* the node sets current_category to None when it completes, and the patch
\* does not say so: a workflow that applies patches keeps the last category
LastCategoryKeptByPatch ==
    /\ FreshRun
    /\ arg.update = "patch"
    /\ ret.state = WorkflowState(FAMILY_CATEGORIES[Len(FAMILY_CATEGORIES)], TRUE)

====
